---- MODULE Spec2Model ----
(***************************************************************************)
(* A model of the book-generation pipeline (impara/books_pipeline).        *)
(*                                                                         *)
(*  - SceneManager: story phases, required characters, scene requirements  *)
(*    with the per-page scene cache, and the reference-page selection.     *)
(*    Specification SpecScene draws a story configuration and applies the  *)
(*    SceneManager operations to it.                                       *)
(*  - BookGenerator / CheckpointManager: page generation, regeneration,    *)
(*    the checkpoint file and resuming from it.  Specification Spec.       *)
(*  - TransitionManager: environment types, transition rules, transition   *)
(*    requirements and reference handling.  Specification SpecTransition   *)
(*    calls the operations of both managers on one engine, specification   *)
(*    SpecClassify applies the functions that only read the configuration. *)
(*    Specification SpecComposition applies the composition ratio to two   *)
(*    lists of characteristics, with Python's float arithmetic.            *)
(*  - APIClient: the extraction of the story text from a response          *)
(*    (specification SpecExtract) and the contents of a text request.      *)
(*  - handle_rate_limit_retry: the retry loop around generate_book.        *)
(*    Specification SpecRetry.                                             *)
(***************************************************************************)
EXTENDS Integers, Sequences, FiniteSets, TLC

\* Pages of the story configurations the SceneManager is applied to.
MaxPage == 3

Pages == 1..MaxPage

\* Phase names used by the configurations: two phases of phase_mapping, one
\* entry of fallback_phases, and the default phase.
MappedPhases == {"opening", "middle"}
AllPhases == {"opening", "middle", "fallback", "conclusion"}

\* scene_management.reference_page.similarity_threshold, default 0.7, in tenths.
SimilarityTenths == 7

\* Pages of the book that is generated (book.page_count).
PageCount == 2

\* Distinct texts the text generator may return for a page.
MaxTexts == 2

\* Images the image generator may return for one page.
MaxImages == 1

\* Leading pages whose text may be predefined in config story.pages.
MaxStoryPages == 1

\* Processes that are started on the checkpoint file, one after another.
MaxRuns == 3

\* The conversation history keeps the last 10 entries.
HistoryCap == 10

\* Entries a lighting_defaults list may grow to.
MaxLighting == 2

\* Distinct characteristics of the lists a composition ratio is computed for.
MaxChars == 10

\* Tokens of a model response.
MaxResponse == 5

\* max_retries of handle_rate_limit_retry (default 3) and its initial_wait.
MaxRetries == 4
InitialWait == 20

\* A Python float has 53 significant bits; FloatBits positions hold every
\* float and every exact intermediate value of the ratios computed here.
Mantissa == 53
FloatBits == 64

VARIABLES
    \* ---- SceneManager ----
    cfg,                \* the loaded story configuration
    scene_cache,        \* SceneManager.scene_cache: page -> scene dict
    environment_cache,  \* TransitionManager.environment_cache: page -> env type
    lighting_defaults,  \* the lighting_defaults lists of environment_types, as they are now
    op,                 \* the SceneManager operation applied last
    arg_page,           \* its page argument
    arg_files,          \* find_reference_page: keys of available_original_files
    ret,                \* its result
    \* ---- BookGenerator, CheckpointManager, checkpoint file ----
    bg,                 \* fields of the BookGenerator of the current process
    cm,                 \* fields of its CheckpointManager
    shared,             \* fields for which bg and cm refer to one object
    disk,               \* the checkpoint file
    story_pages,        \* number of predefined texts in config story.pages
    pc,                 \* "off", or what the process runs: "book", "regen"
    page_num,           \* loop variable of generate_book
    regen,              \* regenerate_pages: pages left, pages named, backups
    image_ok,           \* pages for which a generate_page_image returned a path
    run                 \* the current process: how it started, what it loaded

scene_vars ==
    <<cfg, scene_cache, environment_cache, lighting_defaults, op, arg_page, arg_files, ret>>
gen_vars == <<bg, cm, shared, disk, story_pages, pc, page_num, regen, image_ok, run>>
vars == <<scene_vars, gen_vars>>

(***************************************************************************)
(* Generic helpers                                                         *)
(***************************************************************************)
Min(S) == CHOOSE x \in S : \A y \in S : x <= y
Max(S) == CHOOSE x \in S : \A y \in S : x >= y

\* dict[k] = v on a dict modelled as a function with a finite domain.
Put(f, k, v) == [x \in (DOMAIN f) \cup {k} |-> IF x = k THEN v ELSE f[x]]

\* Index of the first element of seq satisfying Test, 0 when there is none.
FirstIndex(seq, Test(_)) ==
    IF \E i \in 1..Len(seq) : Test(seq[i])
    THEN Min({i \in 1..Len(seq) : Test(seq[i])})
    ELSE 0

(***************************************************************************)
(* Story configurations                                                    *)
(*                                                                         *)
(* characters: an ordered mapping char_type -> character.  intro = 0       *)
(* stands for "no introduction page configured".  actions is the set of    *)
(* phases the character has an action for, emotional_states the set of     *)
(* pages it has an emotional state for.                                    *)
(***************************************************************************)
MiraConfigs ==
    {c \in {[type |-> "mira", name |-> "Mira", intro |-> i, actions |-> a, emotional_states |-> e] :
                i \in 0..MaxPage,
                a \in {{}, {"middle", "conclusion"}},
                e \in {{}, {MaxPage}}} :
        c.actions = {} \/ c.emotional_states = {}}

FoxConfigs ==
    {[type |-> "fox", name |-> "Fox", intro |-> i, actions |-> AllPhases, emotional_states |-> {}] :
        i \in Pages}

\* phase_mapping and fallback_phases.  "opening" is page 1 and "middle" the
\* pages 2..m; pages after m are in no phase of phase_mapping and fall to the
\* fallback table, when there is one, or to the default phase.
PhaseMapping(m) ==
    <<[phase |-> "opening", start_page |-> 1, end_page |-> 1],
      [phase |-> "middle", start_page |-> 2, end_page |-> m]>>

FallbackTable == <<[phase |-> "fallback", start_page |-> MaxPage, end_page |-> MaxPage]>>

\* A phase_mapping that ends after page 1: with FallbackTable, the pages
\* between page 1 and MaxPage lie before the start_page of the fallback entry.
OpeningOnly == <<[phase |-> "opening", start_page |-> 1, end_page |-> 1]>>

StoryProgressions ==
    {[phase_mapping |-> PhaseMapping(MaxPage), fallback_phases |-> <<>>],
     [phase_mapping |-> PhaseMapping(MaxPage - 1), fallback_phases |-> <<>>],
     [phase_mapping |-> PhaseMapping(MaxPage - 1), fallback_phases |-> FallbackTable],
     [phase_mapping |-> OpeningOnly, fallback_phases |-> FallbackTable]}

\* settings.scene_progression: phase -> scene entry.  present = FALSE stands for
\* a phase with no (or an empty) entry.
\* elements stands for the text of the entry (description, elements and
\* atmosphere), a set of words.  lighting and mood are the values of these
\* keys, "" when the entry has no such key; the keys emotion, visual_focus
\* and color_palette are read as mood is and are not modelled apart.
LitScene(els, lighting, mood) ==
    [present |-> TRUE, elements |-> els, lighting |-> lighting, mood |-> mood]
Scene(els) == LitScene(els, "", "")
NoScene == [present |-> FALSE, elements |-> {}, lighting |-> "", mood |-> ""]

SceneProgressions ==
    {[opening |-> Scene({"tree"}), middle |-> Scene({"tree"})],
     [opening |-> Scene({"tree"}), middle |-> Scene({"sea"})],
     [opening |-> Scene({}), middle |-> Scene({})],
     [opening |-> Scene({"tree"}), middle |-> NoScene]}

\* page_emotions of a configuration that has none: page -> lighting, "" for none.
NoPageEmotions == [p \in Pages |-> ""]

Configs ==
    {[characters |-> <<m, f>>,
      phase_mapping |-> sp.phase_mapping,
      fallback_phases |-> sp.fallback_phases,
      default_phase |-> "conclusion",
      scene_progression |-> sc,
      environment_types |-> <<>>,
      transition_rules |-> <<>>,
      blend_ratio |-> "50/50",
      page_emotions |-> NoPageEmotions] :
        m \in MiraConfigs, f \in FoxConfigs, sp \in StoryProgressions,
        sc \in SceneProgressions}

(***************************************************************************)
(* Configurations with environment types, transition rules and page        *)
(* emotions, for the TransitionManager.                                    *)
(*                                                                         *)
(* environment_types: an ordered mapping name -> archetype.  indicators    *)
(* and characteristics are lists of keywords; has_lighting_defaults tells  *)
(* whether the archetype has the key lighting_defaults.                    *)
(* transition_rules: the rule configured under the key "from_to_to";       *)
(* composition = "" and has_introduce / has_phase_out = FALSE stand for    *)
(* keys the rule does not have.                                            *)
(* blend_ratio: environment_transitions.default.blend_ratio, "" when the   *)
(* configuration has no such entry.                                        *)
(* page_emotions: page -> lighting, "" for none.                           *)
(***************************************************************************)
Archetype(name, ind, chr, has, lights) ==
    [name |-> name, indicators |-> ind, characteristics |-> chr,
     has_lighting_defaults |-> has, lighting_defaults |-> lights]

EnvironmentTypeLists ==
    {<<Archetype("forest", <<"Tree">>, <<"green">>, TRUE, <<"soft">>),
       Archetype("sea", <<"sea">>, <<"wave", "green">>, TRUE, <<>>)>>,
     <<Archetype("sea", <<"sea">>, <<"green", "wave">>, FALSE, <<>>),
       Archetype("forest", <<"Tree">>, <<>>, TRUE, <<"soft">>)>>,
     <<Archetype("forest", <<"Tree", "Tree">>, <<"green">>, FALSE, <<>>)>>}

Rule(from, to, composition, hasIntroduce, introduce, hasPhaseOut, phaseOut) ==
    [from |-> from, to |-> to, composition |-> composition, emphasis |-> to,
     maintain |-> <<"art_style">>,
     has_introduce |-> hasIntroduce, introduce |-> introduce,
     has_phase_out |-> hasPhaseOut, phase_out |-> phaseOut]

\* transition_rules with the blend_ratio of the default transition.
RuleTable(rules, blend) == [transition_rules |-> rules, blend_ratio |-> blend]

TransitionRuleTables ==
    {RuleTable(<<>>, "50/50"),
     RuleTable(<<>>, ""),
     RuleTable(<<Rule("forest", "sea", "30/70", TRUE, <<"waves">>, TRUE, <<"leaves">>)>>, "50/50"),
     RuleTable(<<Rule("sea", "forest", "", TRUE, <<"leaves">>, TRUE, <<"waves">>)>>, "50/50"),
     RuleTable(<<Rule("sea", "forest", "30/70", TRUE, <<"leaves">>, FALSE, <<>>)>>, "50/50")}

PageEmotionTables ==
    {NoPageEmotions, [p \in Pages |-> IF p = 2 THEN "dim" ELSE ""]}

TransitionSceneProgressions ==
    {[opening |-> LitScene({"tree", "green"}, "bright", "calm"),
      middle |-> LitScene({"sea", "waves"}, "bright", "calm")],
     [opening |-> LitScene({"tree"}, "bright", ""),
      middle |-> LitScene({"tree"}, "", "calm")],
     [opening |-> Scene({"sea", "tree"}), middle |-> Scene({"green"})]}

TransitionConfigs ==
    {[characters |-> <<[type |-> "fox", name |-> "Fox", intro |-> 1, actions |-> AllPhases,
                        emotional_states |-> {}]>>,
      phase_mapping |-> PhaseMapping(MaxPage),
      fallback_phases |-> <<>>,
      default_phase |-> "conclusion",
      scene_progression |-> sc,
      environment_types |-> envs,
      transition_rules |-> rules.transition_rules,
      blend_ratio |-> rules.blend_ratio,
      page_emotions |-> emotions] :
        sc \in TransitionSceneProgressions, envs \in EnvironmentTypeLists,
        rules \in TransitionRuleTables, emotions \in PageEmotionTables}

(***************************************************************************)
(* SceneManager._get_story_phase                                           *)
(***************************************************************************)
InRange(info, p) == info.start_page <= p /\ p <= info.end_page

\* The phase of entry i of a phase table, "" for no entry.
PhaseAt(table, i) == IF i = 0 THEN "" ELSE table[i].phase

\* The loop over phase_mapping shared by _get_story_phase, _get_base_scene_info
\* and TransitionManager._get_scene_info: the first phase whose range holds p,
\* "" when there is none.
MappedPhase(p) ==
    LET Here(info) == InRange(info, p)
    IN PhaseAt(cfg.phase_mapping, FirstIndex(cfg.phase_mapping, Here))

\* The loop over fallback_phases: the first entry whose end_page is not before
\* p (its start_page is not looked at), "" when there is none.
FallbackPhase(p) ==
    LET Falls(info) == p <= info.end_page
    IN PhaseAt(cfg.fallback_phases, FirstIndex(cfg.fallback_phases, Falls))

StoryPhaseOf(mapped, fallback) ==
    IF mapped # "" THEN mapped
    ELSE IF fallback # "" THEN fallback
    ELSE cfg.default_phase

get_story_phase(p) == StoryPhaseOf(MappedPhase(p), FallbackPhase(p))

(***************************************************************************)
(* SceneManager.get_required_characters                                    *)
(***************************************************************************)
\* introduction.page with its default of 1
IntroPageOrDefault(ch) == IF ch.intro = 0 THEN 1 ELSE ch.intro

\* Mutant: the introduction-page test is dropped.
IsRequired_NoIntroCheck(ch, p, phase) ==
    \/ phase \in ch.actions
    \/ p \in ch.emotional_states

\* The test on one character; phase is _get_story_phase(p).
IsRequired(ch, p, phase) ==
    /\ ~(p < IntroPageOrDefault(ch))
    /\ \/ phase \in ch.actions
       \/ p \in ch.emotional_states

\* Mutant: the page emotion is left out of the character's details.
CharacterDetail_NoEmotion(ch, p, phase) ==
    [name |-> ch.name, type |-> ch.type,
     action |-> IF phase \in ch.actions THEN phase ELSE "None",
     emotion |-> 0]

CharacterDetail(ch, p, phase) ==
    [name |-> ch.name, type |-> ch.type,
     action |-> IF phase \in ch.actions THEN phase ELSE "None",
     emotion |-> IF p \in ch.emotional_states THEN p ELSE 0]

RECURSIVE RequiredFrom(_, _, _, _)
RequiredFrom(chars, i, p, phase) ==
    IF i > Len(chars) THEN <<>>
    ELSE (IF IsRequired(chars[i], p, phase)
          THEN <<CharacterDetail(chars[i], p, phase)>> ELSE <<>>)
         \o RequiredFrom(chars, i + 1, p, phase)

get_required_characters(p) == RequiredFrom(cfg.characters, 1, p, get_story_phase(p))

(***************************************************************************)
(* Scene dicts.  A scene dict is the copy of a scene_progression entry     *)
(* (named by its phase) plus the keys get_scene_requirements adds.         *)
(*   characters: <<>> when the key is absent                               *)
(*   transition_requirements, reference_handling: <<>> when the key is     *)
(*     absent, else <<the dict stored under the key>>                      *)
(*   emotion: whether the page-emotion keys (emotion, lighting, mood,      *)
(*     visual_focus, color_palette) were written                           *)
(*   lighting, mood: the values of these keys; the key is present when the *)
(*     value is not "" or the page-emotion keys were written               *)
(*   environment_type: "" when the three environment keys are absent, else *)
(*     environment_characteristics and lighting_defaults are the lists     *)
(*     stored under those keys, as they were when the keys were written    *)
(***************************************************************************)
EmptyDict ==
    [empty |-> TRUE, phase |-> "", characters |-> <<>>, transition_requirements |-> <<>>,
     reference_handling |-> <<>>, emotion |-> FALSE, lighting |-> "", mood |-> "",
     environment_type |-> "", environment_characteristics |-> <<>>, lighting_defaults |-> <<>>]

SceneProgressionEntry(ph) ==
    IF cfg.scene_progression[ph].present
    THEN [EmptyDict EXCEPT !.empty = FALSE, !.phase = ph,
                           !.lighting = cfg.scene_progression[ph].lighting,
                           !.mood = cfg.scene_progression[ph].mood]
    ELSE EmptyDict

Elements(d) == IF d.empty THEN {} ELSE cfg.scene_progression[d.phase].elements

\* A cache miss: the dict is stored and the stored object itself is returned.
CacheMiss(cache, p, d) == [info |-> d, cache |-> Put(cache, p, d), fresh |-> TRUE]

\* _get_base_scene_info once the phase of phase_mapping holding p is known.
\* fresh: the dict returned is the very object stored in the cache (a miss);
\* on a hit it is a copy.
BaseSceneInfoIn(cache, p, ph) ==
    IF p \in DOMAIN cache
    THEN [info |-> cache[p], cache |-> cache, fresh |-> FALSE]
    ELSE IF ph = ""
         THEN [info |-> EmptyDict, cache |-> cache, fresh |-> FALSE]
         ELSE CacheMiss(cache, p, SceneProgressionEntry(ph))

get_base_scene_info(cache, p) == BaseSceneInfoIn(cache, p, MappedPhase(p))

\* A write to the dict get_scene_requirements holds reaches the cache when the
\* dict is the cached object.
WriteThrough(cache, fresh, p, d) == IF fresh THEN Put(cache, p, d) ELSE cache

(***************************************************************************)
(* SceneManager._get_reference_page: the nearest earlier page whose         *)
(* elements are similar.  Dividing by the size of an empty union raises    *)
(* ZeroDivisionError.                                                      *)
(***************************************************************************)
Similar(a, b) == 10 * Cardinality(a \cap b) > SimilarityTenths * Cardinality(a \cup b)

RECURSIVE ScanReference(_, _, _)

\* One candidate page prev, whose scene info is b.
ScanCandidate(cur, prev, b) ==
    IF ~b.info.empty /\ Elements(cur) \cup Elements(b.info) = {}
    THEN [page |-> 0, raised |-> TRUE, cache |-> b.cache]
    ELSE IF ~b.info.empty /\ Similar(Elements(cur), Elements(b.info))
    THEN [page |-> prev, raised |-> FALSE, cache |-> b.cache]
    ELSE ScanReference(b.cache, cur, prev - 1)

ScanReference(cache, cur, prev) ==
    IF prev < 1 THEN [page |-> 0, raised |-> FALSE, cache |-> cache]
    ELSE ScanCandidate(cur, prev, get_base_scene_info(cache, prev))

\* _get_reference_page once the scene info b of the page is known.
ReferencePageFor(p, b) ==
    IF b.info.empty THEN [page |-> 0, raised |-> FALSE, cache |-> b.cache]
    ELSE ScanReference(b.cache, b.info, p - 1)

get_reference_page(cache, p) == ReferencePageFor(p, get_base_scene_info(cache, p))

(***************************************************************************)
(* TransitionManager.  Its mutable state tm is                             *)
(*   cache: environment_cache, page -> environment type                    *)
(*   lighting: for each archetype of environment_types (by position) the   *)
(*     lighting_defaults list object as it is now; the configuration in    *)
(*     cfg keeps the lists as they were loaded.                            *)
(***************************************************************************)
SceneOfPhase(ph) == IF ph = "" THEN NoScene ELSE cfg.scene_progression[ph]

\* TransitionManager._get_scene_info: the configured entry itself, not a copy
\* of the cache.  present = FALSE also stands for None.
tm_get_scene_info(p) == SceneOfPhase(MappedPhase(p))

\* str.lower on the words the configurations use.
Lower(w) == IF w = "Tree" THEN "tree" ELSE w

\* The lower-cased text of a scene that is searched for keywords.
text_to_analyze(els) == {Lower(w) : w \in els}

\* keyword in word, for lower-cased words: "wave" is part of "waves".
Contains(word, keyword) == word = keyword \/ (word = "waves" /\ keyword = "wave")

\* keyword.lower() in text_to_analyze
Found(keyword, text) == \E w \in text : Contains(w, Lower(keyword))

RECURSIVE Matches(_, _, _, _)

\* The loop over a keyword list from position i: weight is added for every
\* entry found in the text.
Matches(keywords, i, text, weight) ==
    IF i > Len(keywords) THEN 0
    ELSE (IF Found(keywords[i], text) THEN weight ELSE 0) + Matches(keywords, i + 1, text, weight)

\* Mutant: indicators count as characteristics do.
EnvScore_Unweighted(env, text) ==
    Matches(env.indicators, 1, text, 1) + Matches(env.characteristics, 1, text, 1)

\* TransitionManager._get_environment_type: +2 per indicator, +1 per
\* characteristic found in the scene text; the first type with the highest
\* score among those that scored; "default" when none scored.
EnvScore(env, text) ==
    Matches(env.indicators, 1, text, 2) + Matches(env.characteristics, 1, text, 1)

FirstBest(envs, text, scored) ==
    IF scored = {} THEN "default"
    ELSE envs[Min({i \in scored :
                     \A j \in scored : EnvScore(envs[i], text) >= EnvScore(envs[j], text)})].name

EnvironmentTypeAmong(envs, text) ==
    FirstBest(envs, text, {i \in 1..Len(envs) : EnvScore(envs[i], text) > 0})

get_environment_type(els) ==
    EnvironmentTypeAmong(cfg.environment_types, text_to_analyze(els))

(***************************************************************************)
(* TransitionManager._get_transition_rules.  raised: a KeyError.           *)
(***************************************************************************)
KeyError ==
    [raised |-> TRUE, composition |-> "", emphasis |-> "", maintain |-> <<>>,
     has_introduce |-> FALSE, introduce |-> <<>>, has_phase_out |-> FALSE, phase_out |-> <<>>]

\* The position of the rule configured under the key "from_to_to", 0 for none.
RuleIndex(from, to) ==
    LET Keyed(r) == r.from = from /\ r.to = to
    IN FirstIndex(cfg.transition_rules, Keyed)

\* return self.transition_rules[rule_key]
ConfiguredRule(r) ==
    [raised |-> FALSE, composition |-> r.composition, emphasis |-> r.emphasis,
     maintain |-> r.maintain,
     has_introduce |-> r.has_introduce, introduce |-> r.introduce,
     has_phase_out |-> r.has_phase_out, phase_out |-> r.phase_out]

\* The copy of the reverse rule with introduce and phase_out exchanged; both
\* keys are read with rules[...].
ReversedRule(r) ==
    IF ~r.has_introduce \/ ~r.has_phase_out THEN KeyError
    ELSE [ConfiguredRule(r) EXCEPT !.introduce = r.phase_out, !.phase_out = r.introduce]

\* The default rule: its composition is
\* environment_transitions['default']['blend_ratio'].
DefaultRule(to) ==
    IF cfg.blend_ratio = "" THEN KeyError
    ELSE [raised |-> FALSE, composition |-> cfg.blend_ratio, emphasis |-> to,
          maintain |-> <<"character_designs", "art_style", "color_harmony">>,
          has_introduce |-> TRUE, introduce |-> <<>>,
          has_phase_out |-> TRUE, phase_out |-> <<>>]

RulesAt(to, exact, reverse) ==
    IF exact # 0 THEN ConfiguredRule(cfg.transition_rules[exact])
    ELSE IF reverse # 0 THEN ReversedRule(cfg.transition_rules[reverse])
    ELSE DefaultRule(to)

get_transition_rules(from, to) == RulesAt(to, RuleIndex(from, to), RuleIndex(to, from))

(***************************************************************************)
(* TransitionManager._generate_transition_requirements and its helpers     *)
(***************************************************************************)
\* The position of an archetype in environment_types, 0 when the name is not
\* configured ("default").
EnvIndex(name) ==
    LET Named(e) == e.name = name
    IN FirstIndex(cfg.environment_types, Named)

\* environment_types.get(env, {}).get('characteristics', [])
CharacteristicsAt(i) == IF i = 0 THEN <<>> ELSE cfg.environment_types[i].characteristics

Range(seq) == {seq[i] : i \in 1..Len(seq)}

\* A composition: a ratio and the two characteristics it names, if any.
Composition(ratio, current, previous) ==
    [ratio |-> ratio, current |-> current, previous |-> previous]

(***************************************************************************)
(* Python floats.  A float in [0, 1] is a sequence of FloatBits bits, the  *)
(* bit at position i counting 2^-(i-1), of which at most Mantissa bits     *)
(* from the first 1 on are used.                                           *)
(***************************************************************************)
RECURSIVE Quotient(_, _, _)

\* The bits of r / t from the position after Len(acc) on, by long division;
\* sticky tells whether the division left a remainder.
Quotient(r, t, acc) ==
    IF Len(acc) = FloatBits THEN [bits |-> acc, sticky |-> r # 0]
    ELSE IF r >= t THEN Quotient(2 * (r - t), t, Append(acc, 1))
    ELSE Quotient(2 * r, t, Append(acc, 0))

RECURSIVE AddUlp(_, _)

\* One unit is added at position i, with the carry.
AddUlp(bits, i) ==
    IF i = 0 THEN bits
    ELSE IF bits[i] = 0 THEN [bits EXCEPT ![i] = 1]
    ELSE AddUlp([bits EXCEPT ![i] = 0], i - 1)

\* Round to nearest, ties to even, x being exact up to its sticky flag and
\* last the position of its last bit that is kept.
RoundedAt(x, last) ==
    IF x.bits[last + 1] = 1
       /\ (x.sticky \/ x.bits[last] = 1 \/ \E j \in (last + 2)..FloatBits : x.bits[j] = 1)
    THEN AddUlp([i \in 1..FloatBits |-> IF i <= last THEN x.bits[i] ELSE 0], last)
    ELSE [i \in 1..FloatBits |-> IF i <= last THEN x.bits[i] ELSE 0]

\* The float nearest to x.
Rounded(x) ==
    IF \A i \in 1..FloatBits : x.bits[i] = 0 THEN x.bits
    ELSE RoundedAt(x, Min({i \in 1..FloatBits : x.bits[i] = 1}) + Mantissa - 1)

\* a / b for ints 0 <= a <= b, b > 0; also the float of the literal a/b.
FloatDiv(a, b) == Rounded(Quotient(a, b, <<>>))

\* 1 - x: the bits after the first are inverted and one unit is added at the
\* last position, which is exact; the result is rounded.
OneMinus(x) ==
    IF x[1] = 1 THEN [i \in 1..FloatBits |-> 0]
    ELSE Rounded([bits |-> AddUlp([i \in 1..FloatBits |-> IF i = 1 THEN 0 ELSE 1 - x[i]],
                                  FloatBits),
                  sticky |-> FALSE])

\* x > y
Greater(x, y) ==
    \E i \in 1..FloatBits : x[i] > y[i] /\ \A j \in 1..(i - 1) : x[j] = y[j]

\* The literals 0.7 and 0.3.
SevenTenths == FloatDiv(7, 10)
ThreeTenths == FloatDiv(3, 10)

\* difference_ratio = 1 - (overlap / total_chars)
difference_ratio(overlap, total) == OneMinus(FloatDiv(overlap, total))

\* The ratio for the difference ratio d.
RatioFor(cur, prev, d) ==
    IF Greater(d, SevenTenths) THEN Composition("70%, 30%", cur[1], prev[1])
    ELSE IF Greater(d, ThreeTenths) THEN Composition("60%, 40%", cur[1], prev[1])
    ELSE Composition("50% previous, 50% current", "", "")

\* TransitionManager._calculate_composition_ratio
calculate_composition_ratio(cur, prev) ==
    IF cur = <<>> \/ prev = <<>>
    THEN Composition("50% previous, 50% current", "", "")
    ELSE RatioFor(cur, prev,
                  difference_ratio(Cardinality(Range(cur) \cap Range(prev)),
                                   Cardinality(Range(cur) \cup Range(prev))))

\* transition_rules.get('composition', <the calculated ratio>)
CompositionGuide(rules, calculated) ==
    IF rules.composition # "" THEN Composition(rules.composition, "", "") ELSE calculated

\* TransitionManager._get_emotional_transition: the lighting of both pages in
\* page_emotions, "" for none.
get_emotional_transition(cur, prev) ==
    [from_lighting |-> cfg.page_emotions[prev], to_lighting |-> cfg.page_emotions[cur]]

HasLightingDefaults(i) == i # 0 /\ cfg.environment_types[i].has_lighting_defaults

\* environment_types.get(env, {}).get('lighting_defaults', []): the list of
\* the archetype itself, or a new empty list.
LightingList(lighting, i) == IF HasLightingDefaults(i) THEN lighting[i] ELSE <<>>

\* if s: list.append(s)
Appended(list, s) == IF s # "" THEN Append(list, s) ELSE list

\* The list the archetype holds after an append to the list LightingList gave.
LightingStored(lighting, i, list) ==
    IF HasLightingDefaults(i) THEN [lighting EXCEPT ![i] = list] ELSE lighting

\* _get_lighting_guidance for the archetypes at positions ci and pi, which
\* differ: the text names both lists after the appends.
LightingGuidanceAt(lighting, ci, pi, emotional) ==
    [guidance |-> [from |-> Appended(LightingList(lighting, pi), emotional.from_lighting),
                   to |-> Appended(LightingList(lighting, ci), emotional.to_lighting)],
     lighting |-> LightingStored(
                      LightingStored(lighting, ci,
                          Appended(LightingList(lighting, ci), emotional.to_lighting)),
                      pi, Appended(LightingList(lighting, pi), emotional.from_lighting))]

\* TransitionManager._get_lighting_guidance
get_lighting_guidance(lighting, ce, pe, emotional) ==
    LightingGuidanceAt(lighting, EnvIndex(ce), EnvIndex(pe), emotional)

\* The requirements dict, lg being the result of _get_lighting_guidance.
RequirementsWith(tm, ce, pe, rules, emotional, lg) ==
    [requirements |->
        <<[transition_type |-> <<pe, ce>>,
           composition_guide |->
               CompositionGuide(rules,
                   calculate_composition_ratio(CharacteristicsAt(EnvIndex(ce)),
                                               CharacteristicsAt(EnvIndex(pe)))),
           emphasis |-> rules.emphasis,
           maintain |-> rules.maintain,
           introduce |-> IF rules.has_introduce THEN rules.introduce ELSE <<>>,
           phase_out |-> IF rules.has_phase_out THEN rules.phase_out ELSE <<>>,
           emotional_guidance |-> emotional,
           lighting_guidance |-> lg.guidance]>>,
     raised |-> FALSE,
     envc |-> [tm EXCEPT !.lighting = lg.lighting]]

generate_transition_requirements(tm, ce, pe, rules, emotional) ==
    RequirementsWith(tm, ce, pe, rules, emotional,
                     get_lighting_guidance(tm.lighting, ce, pe, emotional))

(***************************************************************************)
(* TransitionManager.analyze_transition.  requirements: <<>> for {}, else  *)
(* <<the requirements dict>>.                                              *)
(***************************************************************************)
NoTransition(tm) == [requirements |-> <<>>, raised |-> FALSE, envc |-> tm]

\* A KeyError of _get_transition_rules leaves analyze_transition.
TransitionWithRules(tm, ce, pe, rules, emotional) ==
    IF rules.raised THEN [requirements |-> <<>>, raised |-> TRUE, envc |-> tm]
    ELSE generate_transition_requirements(tm, ce, pe, rules, emotional)

\* The environment types ce and pe of both pages are cached; requirements are
\* produced only when the types differ.
TransitionBetween(tm, cur, prev, ce, pe) ==
    IF ce = pe THEN NoTransition([tm EXCEPT !.cache = Put(Put(@, cur, ce), prev, pe)])
    ELSE TransitionWithRules([tm EXCEPT !.cache = Put(Put(@, cur, ce), prev, pe)], ce, pe,
                             get_transition_rules(pe, ce), get_emotional_transition(cur, prev))

\* analyze_transition once the scene infos cs and ps of both pages are known.
TransitionOf(tm, cur, prev, cs, ps) ==
    IF ~cs.present \/ ~ps.present
    THEN NoTransition(tm)
    ELSE TransitionBetween(tm, cur, prev,
                           get_environment_type(cs.elements), get_environment_type(ps.elements))

\* TransitionManager.analyze_transition
analyze_transition(tm, cur, prev) ==
    TransitionOf(tm, cur, prev, tm_get_scene_info(cur), tm_get_scene_info(prev))

(***************************************************************************)
(* TransitionManager.get_reference_handling.  handling: <<>> for {}, else  *)
(* <<the handling dict>>.                                                  *)
(***************************************************************************)
\* The keys of the two scenes that differ.
AdaptList(cs, rs) ==
    (IF cs.lighting # rs.lighting THEN <<"lighting">> ELSE <<>>)
        \o (IF cs.mood # rs.mood THEN <<"mood">> ELSE <<>>)

\* The handling dict for the rules found; a KeyError of _get_transition_rules
\* leaves get_reference_handling.
HandlingWith(cs, rs, rules) ==
    IF rules.raised THEN [handling |-> <<>>, raised |-> TRUE]
    ELSE [handling |->
             <<[maintain |-> rules.maintain,
                adapt |-> IF cs.present /\ rs.present THEN AdaptList(cs, rs) ELSE <<>>,
                ignore |-> IF rules.has_phase_out THEN rules.phase_out ELSE <<>>]>>,
          raised |-> FALSE]

\* The environment types come from the cache when it has both pages, else
\* they are analysed from the scenes, and without both scenes the result is {}.
HandlingBetween(tm, cur, ref, cs, rs) ==
    IF cur \in DOMAIN tm.cache /\ ref \in DOMAIN tm.cache
    THEN HandlingWith(cs, rs, get_transition_rules(tm.cache[ref], tm.cache[cur]))
    ELSE IF ~cs.present \/ ~rs.present
    THEN [handling |-> <<>>, raised |-> FALSE]
    ELSE HandlingWith(cs, rs,
            get_transition_rules(get_environment_type(rs.elements),
                                 get_environment_type(cs.elements)))

get_reference_handling(tm, cur, ref) ==
    HandlingBetween(tm, cur, ref, tm_get_scene_info(cur), tm_get_scene_info(ref))

(***************************************************************************)
(* SceneManager.get_scene_requirements, in the order of its statements.    *)
(* b is the result of _get_base_scene_info, tr the result of               *)
(* analyze_transition, tm the TransitionManager state after it, ref the    *)
(* result of _get_reference_page, d the scene dict as written so far.      *)
(* What is written to d reaches the cache on a miss, also when an error    *)
(* leaves get_scene_requirements afterwards.                               *)
(***************************************************************************)
SceneRaised(cache, tm) == [result |-> EmptyDict, raised |-> TRUE, cache |-> cache, envc |-> tm]

\* The dict is returned.
SceneReturned(p, b, tm, ref, d) ==
    [result |-> d, raised |-> FALSE,
     cache |-> WriteThrough(ref.cache, b.fresh, p, d), envc |-> tm]

\* The environment keys are written when the type found is the configured
\* archetype at position i; lighting_defaults is the list of the archetype
\* as it is now.
SceneEnvironment(p, b, tm, ref, d, i) ==
    SceneReturned(p, b, tm, ref,
        IF i # 0
        THEN [d EXCEPT !.environment_type = cfg.environment_types[i].name,
                       !.environment_characteristics = CharacteristicsAt(i),
                       !.lighting_defaults = LightingList(tm.lighting, i)]
        ELSE d)

\* SceneManager._get_environment_type on the dict.
SceneEmotion(p, b, tm, ref, d) ==
    SceneEnvironment(p, b, tm, ref, d, EnvIndex(get_environment_type(Elements(d))))

\* SceneManager.get_page_emotions and the update of the dict with it: when
\* the page has a story phase, the keys are written with the values of the
\* entry of that phase, '' for those it lacks.
PageEmotionsWritten(d, ph) ==
    IF ph = "" THEN d
    ELSE [d EXCEPT !.emotion = TRUE,
                   !.lighting = cfg.scene_progression[ph].lighting,
                   !.mood = cfg.scene_progression[ph].mood]

\* reference_handling is written when the handling h is not {}; a KeyError
\* of get_reference_handling leaves get_scene_requirements.
SceneHandling(p, b, tm, ref, d, h) ==
    IF h.raised THEN SceneRaised(WriteThrough(ref.cache, b.fresh, p, d), tm)
    ELSE SceneEmotion(p, b, tm, ref,
            PageEmotionsWritten(
                IF h.handling # <<>> THEN [d EXCEPT !.reference_handling = h.handling] ELSE d,
                get_story_phase(p)))

\* get_reference_handling is called when a reference page was found; an
\* error of _get_reference_page leaves get_scene_requirements.
SceneReference(p, b, tm, ref, d) ==
    IF ref.raised THEN SceneRaised(ref.cache, tm)
    ELSE SceneHandling(p, b, tm, ref, d,
            IF ref.page # 0 THEN get_reference_handling(tm, p, ref.page)
            ELSE [handling |-> <<>>, raised |-> FALSE])

\* A KeyError of analyze_transition leaves get_scene_requirements.
SceneTransitionWritten(p, b, tr, d) ==
    IF tr.raised THEN SceneRaised(WriteThrough(b.cache, b.fresh, p, d), tr.envc)
    ELSE SceneReference(p, b, tr.envc,
                        get_reference_page(WriteThrough(b.cache, b.fresh, p, d), p), d)

\* transition_requirements is written when the transition has requirements.
SceneTransition(p, b, tr, d) ==
    SceneTransitionWritten(p, b, tr,
        IF tr.requirements # <<>>
        THEN [d EXCEPT !.transition_requirements = tr.requirements] ELSE d)

\* characters is written when the list is not empty.
SceneCharacters(tm, p, b, chars) ==
    SceneTransition(p, b,
        IF p > 1 THEN analyze_transition(tm, p, p - 1) ELSE NoTransition(tm),
        IF chars # <<>> THEN [b.info EXCEPT !.characters = chars] ELSE b.info)

\* An empty base scene is returned as it is.
SceneBase(tm, p, b) ==
    IF b.info.empty
    THEN [result |-> EmptyDict, raised |-> FALSE, cache |-> b.cache, envc |-> tm]
    ELSE SceneCharacters(tm, p, b, get_required_characters(p))

get_scene_requirements(cache, tm, p) == SceneBase(tm, p, get_base_scene_info(cache, p))

(***************************************************************************)
(* SceneManager.find_reference_page                                        *)
(***************************************************************************)
\* The character type found for a name: the first character with that name.
CharTypeByName(name) ==
    LET Named(ch) == ch.name = name
    IN FirstIndex(cfg.characters, Named)

\* Introduction pages, with an image, of the characters listed in the scene
\* requirements.  introduction.page is read without a default here.
IntroPagesWithImages(details, cur, valid) ==
    {cfg.characters[CharTypeByName(details[k].name)].intro : k \in 1..Len(details)}
        \cap {q \in valid : q # 0 /\ q # cur}

\* Mutant: the current page itself is accepted as a reference.
ValidReferencePages_Inclusive(files, cur) == {q \in files : q <= cur}

\* Pages before the current one that have a saved image.
ValidReferencePages(files, cur) == {q \in files : q < cur}

\* Mutant: the fallback takes the oldest page.
MostRecentPage_Oldest(valid) == Min(valid)

\* The fallback: the most recent page with an image.
MostRecentPage(valid) == Max(valid)

\* Mutant: the error leaves find_reference_page.
OnLookupError_Propagate(valid) == [page |-> 0, raised |-> TRUE, swallowed |-> FALSE]

\* The except clause: the error is logged and the fallback is taken.
OnLookupError(valid) == [page |-> MostRecentPage(valid), raised |-> FALSE, swallowed |-> TRUE]

\* The page found, with the caches as get_scene_requirements left them.
ReferenceReturned(out, reqs) ==
    [page |-> out.page, raised |-> out.raised, swallowed |-> out.swallowed,
     cache |-> reqs.cache, envc |-> reqs.envc]

\* The earliest introduction page with an image, else the most recent page.
ReferenceAmong(valid, reqs, intros) ==
    ReferenceReturned(
        IF intros # {}
        THEN [page |-> Min(intros), raised |-> FALSE, swallowed |-> FALSE]
        ELSE [page |-> MostRecentPage(valid), raised |-> FALSE, swallowed |-> FALSE],
        reqs)

\* The try block, reqs being the result of get_scene_requirements.
ReferenceLookup(cur, valid, reqs) ==
    IF reqs.raised THEN ReferenceReturned(OnLookupError(valid), reqs)
    ELSE ReferenceAmong(valid, reqs, IntroPagesWithImages(reqs.result.characters, cur, valid))

ReferenceFrom(cache, envc, cur, valid) ==
    IF valid = {}
    THEN [page |-> 0, raised |-> FALSE, swallowed |-> FALSE, cache |-> cache, envc |-> envc]
    ELSE ReferenceLookup(cur, valid, get_scene_requirements(cache, envc, cur))

find_reference_page(cache, envc, cur, files) ==
    ReferenceFrom(cache, envc, cur, ValidReferencePages(files, cur))

(***************************************************************************)
(* BookGenerator and CheckpointManager                                     *)
(*                                                                         *)
(* bg and cm hold the fields of the two objects; disk is the checkpoint    *)
(* file.  A BookGenerator that resumes takes its sets, dicts and list from *)
(* the dict CheckpointManager._load_checkpoint returns, which are the very *)
(* objects the CheckpointManager keeps: shared names the fields for which  *)
(* bg and cm refer to one object.  A change in place reaches both; an      *)
(* assignment of a new object ends the sharing.                            *)
(*                                                                         *)
(* A text is a number: 0 is the predefined text of config story.pages,     *)
(* 1..MaxTexts are texts the text generator may return, ShortText is a     *)
(* text of fewer than five words.  An image path is                        *)
(* the index idx of page_NN/image_original_{idx}.png.                      *)
(***************************************************************************)
BookPages == 1..PageCount
Texts == 1..MaxTexts

\* An extracted text of fewer than five words.
ShortText == -1

\* What the text generator may return as the extracted text of a page.
ExtractedTexts == Texts \cup {ShortText}

EmptyState ==
    [completed_pages |-> {}, last_attempted_page |-> 0, previous_descriptions |-> <<>>,
     conversation_history |-> <<>>, pages_with_images |-> {}, original_image_files |-> <<>>]

SharedFields ==
    {"completed_pages", "previous_descriptions", "conversation_history",
     "pages_with_images", "original_image_files"}

NoCheckpoint == [exists |-> FALSE, is_complete |-> FALSE, data |-> EmptyState]

\* seq[-n:]
LastN(seq, n) == IF Len(seq) <= n THEN seq ELSE SubSeq(seq, Len(seq) - n + 1, Len(seq))

\* A change in place of the object a field of bg (of cm) refers to.
BgMutate(st, f, v) ==
    [st EXCEPT !.bg[f] = v, !.cm[f] = IF f \in st.shared THEN v ELSE @]
CmMutate(st, f, v) ==
    [st EXCEPT !.cm[f] = v, !.bg[f] = IF f \in st.shared THEN v ELSE @]

\* self.f = <a new object>
BgAssign(st, f, v) == [st EXCEPT !.bg[f] = v, !.shared = @ \ {f}]
CmAssign(st, f, v) == [st EXCEPT !.cm[f] = v, !.shared = @ \ {f}]

\* CheckpointManager._save_checkpoint / save
save_checkpoint(st) ==
    [st EXCEPT !.disk = [exists |-> TRUE, is_complete |-> FALSE, data |-> st.cm]]

\* CheckpointManager.mark_as_complete
mark_as_complete(st) ==
    [st EXCEPT !.disk = [exists |-> TRUE, is_complete |-> TRUE, data |-> st.cm]]

update_last_attempted_page(st, p) ==
    save_checkpoint([st EXCEPT !.cm.last_attempted_page = p])

add_completed_page(st, p) ==
    save_checkpoint(CmMutate(st, "completed_pages", st.cm.completed_pages \cup {p}))

add_page_description(st, p, text) ==
    save_checkpoint(CmMutate(st, "previous_descriptions", Put(st.cm.previous_descriptions, p, text)))

add_original_image_file(st, p, path) ==
    save_checkpoint(CmMutate(st, "original_image_files", Put(st.cm.original_image_files, p, path)))

\* Mutant: the history is cut only when it is longer than 12 entries.
TruncateHistory_Late(history) == IF Len(history) > 12 THEN LastN(history, 12) ELSE history

\* if len(history) > 10: history = history[-10:]
TruncateHistory(history) == IF Len(history) > HistoryCap THEN LastN(history, HistoryCap) ELSE history

\* The cut of the CheckpointManager's list assigns a new list.
CutCmHistory(st) ==
    IF Len(st.cm.conversation_history) > HistoryCap
    THEN CmAssign(st, "conversation_history", TruncateHistory(st.cm.conversation_history))
    ELSE st

\* The cut of the BookGenerator's list assigns a new list.
CutBgHistory(st) ==
    IF Len(st.bg.conversation_history) > HistoryCap
    THEN BgAssign(st, "conversation_history", TruncateHistory(st.bg.conversation_history))
    ELSE st

\* CheckpointManager.add_to_conversation_history
add_to_conversation_history(st, text) ==
    save_checkpoint(CutCmHistory(
        CmMutate(st, "conversation_history", Append(st.cm.conversation_history, text))))

(***************************************************************************)
(* BookGenerator.generate_page_text.  o.text is what the text generator    *)
(* gave: "fail" (the call failed or nothing could be extracted) or "ok"    *)
(* with the accepted text o.value.                                         *)
(***************************************************************************)
\* self.previous_descriptions[p] = text and add_page_description(p, text)
TextStored(st, p, text) ==
    [st |-> add_page_description(
                BgMutate(st, "previous_descriptions", Put(st.bg.previous_descriptions, p, text)),
                p, text),
     raised |-> FALSE]

\* BookGenerator._generate_backup_story_text: <<>> for None, else <<text>>.
\* It passes page_number to APIClient.generate_backup_story, which takes no
\* such argument: the TypeError is caught and None is returned.
generate_backup_story_text(p) == <<>>

\* The text of fewer than five words is replaced by the backup text when
\* there is one, and kept otherwise.
FinalText(text, backup) ==
    IF text = ShortText /\ backup # <<>> THEN backup[1] ELSE text

\* APIClient.generate_story_text, lines 327-334: the contents of the request
\* are the conversation history followed by the prompt, and the role of an
\* entry is decided by its position, "user" for the first.
generation_input(conversation_history) == conversation_history \o <<"prompt">>
contents(conversation_history) ==
    [i \in 1..Len(generation_input(conversation_history)) |->
        [role |-> IF (i - 1) % 2 = 0 THEN "user" ELSE "model",
         text |-> generation_input(conversation_history)[i]]]

generate_page_text(st, p, o) ==
    IF p <= story_pages
    THEN \* predefined text of config story.pages
         TextStored(st, p, 0)
    ELSE IF o.text = "fail"
    THEN [st |-> st, raised |-> TRUE]
    ELSE TextStored(
            CutBgHistory(add_to_conversation_history(
                BgMutate(st, "conversation_history",
                         st.bg.conversation_history \o <<"prompt", "response">>),
                "response")),
            p, FinalText(o.value, generate_backup_story_text(p)))

(***************************************************************************)
(* image_processor.process_and_save_images.  images is the list the image  *)
(* generator returned (<<>> also for None); each image is "invalid" (too   *)
(* short, or it cannot be decoded), "overlay_fails" (it is saved, then     *)
(* apply_text_overlay raises) or "ok".                                     *)
(***************************************************************************)
RECURSIVE ProcessImages(_, _, _, _, _, _)

\* The image idx was saved, stored being the state after the checkpoint call
\* and path the first original path: the overlay is applied, and image_count
\* grows unless it raised.
ImageSaved(stored, p, images, idx, count, path) ==
    ProcessImages(stored, p, images, idx + 1,
                  IF images[idx] = "overlay_fails" THEN count ELSE count + 1, path)

ProcessImages(st, p, images, idx, count, first) ==
    IF idx > Len(images) THEN [st |-> st, image_count |-> count, first_original |-> first]
    ELSE IF images[idx] = "invalid"
    THEN ProcessImages(st, p, images, idx + 1, count, first)
    ELSE ImageSaved(IF count = 0 THEN add_original_image_file(st, p, idx) ELSE st,
                    p, images, idx, count, IF count = 0 THEN idx ELSE first)

process_and_save_images(st, p, images) == ProcessImages(st, p, images, 1, 0, 0)

\* if first_original_path: self.original_image_files[p] = first_original_path
FirstOriginalStored(r, p) ==
    [r EXCEPT !.st = IF r.first_original # 0
                     THEN BgMutate(r.st, "original_image_files",
                                   Put(r.st.bg.original_image_files, p, r.first_original))
                     ELSE r.st]

\* BookGenerator._process_and_save_images
bg_process_and_save_images(st, p, images) ==
    FirstOriginalStored(process_and_save_images(st, p, images), p)

\* The path is returned only when an image was counted; 0 for None.
ImagePathOf(r) ==
    [st |-> r.st,
     path |-> IF r.image_count > 0 /\ r.first_original # 0 THEN r.first_original ELSE 0]

\* BookGenerator.generate_page_image
generate_page_image(st, p, images) == ImagePathOf(bg_process_and_save_images(st, p, images))

(***************************************************************************)
(* BookGenerator.generate_page.  o.after_text = "raise": an error leaves   *)
(* generate_page after the text was stored (get_scene_requirements or      *)
(* get_required_characters raises, or the run is interrupted while the     *)
(* image is generated).                                                    *)
(***************************************************************************)
\* self.completed_pages.add(p) and add_completed_page(p)
PageCompleted(st, p, path) ==
    [st |-> add_completed_page(
                BgMutate(st, "completed_pages", st.bg.completed_pages \cup {p}), p),
     raised |-> FALSE, attempted |-> TRUE, image |-> path]

\* i is the result of generate_page_image: the page is marked as having
\* images when a path was returned, and completed in either case.
PageAfterImage(p, i) ==
    PageCompleted(IF i.path # 0
                  THEN BgMutate(i.st, "pages_with_images", i.st.bg.pages_with_images \cup {p})
                  ELSE i.st,
                  p, i.path)

\* t is the result of generate_page_text.
PageAfterText(p, o, t) ==
    IF t.raised \/ o.after_text = "raise"
    THEN [st |-> t.st, raised |-> TRUE, attempted |-> TRUE, image |-> 0]
    ELSE PageAfterImage(p, generate_page_image(t.st, p, o.images))

\* Mutant: no page counts as completed.
AlreadyCompleted_Never(st, p) == FALSE

\* The test "page_number in self.completed_pages" that generate_page and the
\* loop of generate_book both make before they go on.
AlreadyCompleted(st, p) == p \in st.bg.completed_pages

generate_page(st, p, o) ==
    IF AlreadyCompleted(st, p)
    THEN [st |-> st, raised |-> FALSE, attempted |-> FALSE, image |-> 0]
    ELSE PageAfterText(p, o,
            generate_page_text(
                update_last_attempted_page([st EXCEPT !.bg.last_attempted_page = p], p), p, o))

\* What the text generator, the scene manager and the image generator may do
\* during one generate_page.
ImageLists == UNION {[1..n -> {"invalid", "overlay_fails", "ok"}] : n \in 0..MaxImages}

Outcomes ==
    {[text |-> "fail", value |-> 0, after_text |-> "continue", images |-> <<>>]}
    \cup {[text |-> "ok", value |-> v, after_text |-> "raise", images |-> <<>>] :
            v \in ExtractedTexts}
    \cup {[text |-> "ok", value |-> v, after_text |-> "continue", images |-> im] :
            v \in ExtractedTexts, im \in ImageLists}

(***************************************************************************)
(* BookGenerator.regenerate_pages                                          *)
(***************************************************************************)
RECURSIVE SortedSeq(_)
SortedSeq(S) == IF S = {} THEN <<>> ELSE <<Min(S)>> \o SortedSeq(S \ {Min(S)})

NoRegeneration == [todo |-> <<>>, pages |-> {}, backup |-> EmptyState]

\* Mutant: the backups are taken empty.
BackupOf_Empty(b) == EmptyState

\* The copies taken before the pages are removed from completed_pages.
BackupOf(b) ==
    [EmptyState EXCEPT !.completed_pages = b.completed_pages,
                       !.pages_with_images = b.pages_with_images,
                       !.previous_descriptions = b.previous_descriptions,
                       !.original_image_files = b.original_image_files]

\* Mutant: the except clause restores nothing.
RestoreBackup_Skipped(st, backup) == st

\* The except clause: the four backups are assigned back.
RestoreBackup(st, backup) ==
    BgAssign(BgAssign(BgAssign(BgAssign(st,
        "completed_pages", backup.completed_pages),
        "pages_with_images", backup.pages_with_images),
        "previous_descriptions", backup.previous_descriptions),
        "original_image_files", backup.original_image_files)

\* What the checkpoint file held when a process started.
StartOf(b) ==
    [completed_pages |-> b.completed_pages, last_attempted_page |-> b.last_attempted_page,
     previous_descriptions |-> b.previous_descriptions,
     original_image_files |-> b.original_image_files]

\* No process has run yet and there is no checkpoint file.
NoRun == [count |-> 0, kind |-> "none", loaded |-> FALSE, resumed |-> FALSE, attempted |-> FALSE, start |-> StartOf(EmptyState)]

Idle ==
    /\ bg = EmptyState
    /\ cm = EmptyState
    /\ shared = {}
    /\ disk = NoCheckpoint
    /\ pc = "off"
    /\ page_num = 0
    /\ regen = NoRegeneration
    /\ image_ok = {}
    /\ run = NoRun


(***************************************************************************)
(* SpecScene: a configuration is loaded and a page and a mapping of saved  *)
(* images are drawn; the SceneManager operations are then applied to them, *)
(* in any order and any number of times, on the same SceneManager.         *)
(***************************************************************************)
\* handle_rate_limit_retry has not been called.
NoRetry ==
    [max_retries |-> 0, retry_count |-> 0, wait_time |-> InitialWait, attempts |-> 0,
     completed |-> 0, message |-> <<>>, cause |-> ""]

\* env: the result of _get_environment_type; rules: of _get_transition_rules;
\* requirements: of analyze_transition; handling: of get_reference_handling;
\* composition: of _calculate_composition_ratio for the lists current, previous.
NoResult ==
    [page |-> 0, phase |-> "", chars |-> <<>>, scene |-> EmptyDict,
     raised |-> FALSE, swallowed |-> FALSE,
     env |-> "", text |-> {}, from |-> "", to |-> "", rules |-> KeyError,
     requirements |-> <<>>, handling |-> <<>>,
     current |-> <<>>, previous |-> <<>>, composition |-> Composition("", "", ""),
     response |-> <<>>, story |-> <<>>,
     retry |-> NoRetry]

\* The lighting_defaults lists of a configuration as loaded.
LoadedLighting(c) ==
    [i \in 1..Len(c.environment_types) |-> c.environment_types[i].lighting_defaults]

\* The mutable state of the TransitionManager.
TransitionManagerState == [cache |-> environment_cache, lighting |-> lighting_defaults]

InitScene ==
    /\ cfg \in Configs
    /\ arg_page \in Pages
    /\ arg_files \in SUBSET Pages
    /\ scene_cache = <<>>
    /\ environment_cache = <<>>
    /\ lighting_defaults = LoadedLighting(cfg)
    /\ op = "init"
    /\ ret = NoResult
    /\ Idle
    /\ story_pages = 0

GetStoryPhase ==
    /\ op' = "get_story_phase"
    /\ ret' = [NoResult EXCEPT !.phase = get_story_phase(arg_page)]
    /\ UNCHANGED <<cfg, arg_page, arg_files, scene_cache, environment_cache, lighting_defaults,
                   gen_vars>>

GetRequiredCharacters ==
    /\ op' = "get_required_characters"
    /\ ret' = [NoResult EXCEPT !.chars = get_required_characters(arg_page)]
    /\ UNCHANGED <<cfg, arg_page, arg_files, scene_cache, environment_cache, lighting_defaults,
                   gen_vars>>

\* The call returned (or raised) r with the result shown and left the caches
\* of r.
SceneManagerReturns(result, r) ==
    /\ ret' = result
    /\ scene_cache' = r.cache
    /\ environment_cache' = r.envc.cache
    /\ lighting_defaults' = r.envc.lighting
    /\ UNCHANGED <<cfg, arg_page, arg_files, gen_vars>>

SceneRequirementsResult(r) ==
    SceneManagerReturns([NoResult EXCEPT !.scene = r.result, !.raised = r.raised], r)

GetSceneRequirements ==
    /\ op' = "get_scene_requirements"
    /\ SceneRequirementsResult(
            get_scene_requirements(scene_cache, TransitionManagerState, arg_page))

ReferencePageResult(r) ==
    SceneManagerReturns([NoResult EXCEPT !.page = r.page, !.raised = r.raised,
                                         !.swallowed = r.swallowed], r)

FindReferencePage ==
    /\ op' = "find_reference_page"
    /\ ReferencePageResult(
            find_reference_page(scene_cache, TransitionManagerState, arg_page, arg_files))

\* _get_reference_page called on its own; it does not touch the
\* TransitionManager.
GetReferencePageReturns(r) ==
    SceneManagerReturns([NoResult EXCEPT !.page = r.page, !.raised = r.raised],
                        [cache |-> r.cache, envc |-> TransitionManagerState])

GetReferencePage ==
    /\ op' = "_get_reference_page"
    /\ GetReferencePageReturns(get_reference_page(scene_cache, arg_page))

NextScene ==
    \/ GetStoryPhase
    \/ GetRequiredCharacters
    \/ GetSceneRequirements
    \/ FindReferencePage
    \/ GetReferencePage

SpecScene == InitScene /\ [][NextScene]_vars

(***************************************************************************)
(* Spec: processes of generate_book.py run one after another on the same   *)
(* checkpoint file.  A process constructs a CheckpointManager and a        *)
(* BookGenerator (main, handle_rate_limit_retry) and runs generate_book or *)
(* regenerate_pages; it ends when the call returns, when an exception      *)
(* leaves it, or when it is interrupted between two pages.  One step of    *)
(* the page loops is one action.                                           *)
(***************************************************************************)
Heap == [bg |-> bg, cm |-> cm, shared |-> shared, disk |-> disk]

\* Mutant: the BookGenerator starts empty although a checkpoint exists.
Construct_IgnoreCheckpoint(file) ==
    save_checkpoint([bg |-> EmptyState, cm |-> EmptyState, shared |-> {}, disk |-> file])

\* CheckpointManager() followed by BookGenerator.__init__.
Construct(file) ==
    IF file.exists
    THEN [bg |-> file.data, cm |-> file.data, shared |-> SharedFields, disk |-> file]
    ELSE \* start fresh; set_output_dir saves the first checkpoint
         save_checkpoint([bg |-> EmptyState, cm |-> EmptyState, shared |-> {}, disk |-> file])

(***************************************************************************)
(* Specification SpecTransition: a configuration with environment types,   *)
(* transition rules and page emotions is loaded, and the operations of the *)
(* SceneManager and its TransitionManager are called in any order, each    *)
(* call with arguments of its own.                                         *)
(***************************************************************************)
\* The words of scene texts and the names of environment types.
Words == {"Tree", "sea", "waves", "green"}
EnvNames == {"forest", "sea", "default"}

\* The configurations the engine is run on: those with page emotions.
EngineConfigs == {c \in TransitionConfigs : c.page_emotions # NoPageEmotions}

InitTransition ==
    /\ cfg \in EngineConfigs
    /\ arg_page = 1
    /\ arg_files = {}
    /\ scene_cache = <<>>
    /\ environment_cache = <<>>
    /\ lighting_defaults = LoadedLighting(cfg)
    /\ op = "init"
    /\ ret = NoResult
    /\ Idle
    /\ story_pages = 0

\* A call with page p returned (or raised) r with the result shown and left
\* the caches and the lighting lists of r.  The lists are kept within
\* MaxLighting entries.
EngineReturns(p, result, r) ==
    /\ \A i \in DOMAIN r.envc.lighting : Len(r.envc.lighting[i]) <= MaxLighting
    /\ arg_page' = p
    /\ ret' = result
    /\ scene_cache' = r.cache
    /\ environment_cache' = r.envc.cache
    /\ lighting_defaults' = r.envc.lighting
    /\ UNCHANGED <<cfg, arg_files, gen_vars>>

\* A call that leaves the state of both managers as it is.
PureCall(result) ==
    /\ ret' = result
    /\ UNCHANGED <<cfg, arg_page, arg_files, scene_cache, environment_cache, lighting_defaults,
                   gen_vars>>

ClassifyEnvironment ==
    /\ op' = "get_environment_type"
    /\ \E text \in SUBSET Words :
          PureCall([NoResult EXCEPT !.text = text, !.env = get_environment_type(text)])

GetTransitionRules ==
    /\ op' = "get_transition_rules"
    /\ \E from \in EnvNames, to \in EnvNames :
          PureCall([NoResult EXCEPT !.from = from, !.to = to,
                                    !.rules = get_transition_rules(from, to)])

TransitionResult(cur, prev, r) ==
    EngineReturns(cur,
        [NoResult EXCEPT !.page = prev, !.requirements = r.requirements, !.raised = r.raised],
        [cache |-> scene_cache, envc |-> r.envc])

AnalyzeTransition ==
    /\ op' = "analyze_transition"
    /\ \E cur \in Pages, prev \in Pages :
          /\ prev < cur
          /\ TransitionResult(cur, prev, analyze_transition(TransitionManagerState, cur, prev))

HandlingResult(cur, ref, r) ==
    EngineReturns(cur,
        [NoResult EXCEPT !.page = ref, !.handling = r.handling, !.raised = r.raised],
        [cache |-> scene_cache, envc |-> TransitionManagerState])

GetReferenceHandling ==
    /\ op' = "get_reference_handling"
    /\ \E cur \in Pages, ref \in Pages :
          /\ ref < cur
          /\ HandlingResult(cur, ref, get_reference_handling(TransitionManagerState, cur, ref))

BaseSceneInfoResult(p, b) ==
    EngineReturns(p, [NoResult EXCEPT !.scene = b.info],
                  [cache |-> b.cache, envc |-> TransitionManagerState])

GetBaseSceneInfo ==
    /\ op' = "get_base_scene_info"
    /\ \E p \in Pages : BaseSceneInfoResult(p, get_base_scene_info(scene_cache, p))

RequirementsResult(p, r) ==
    EngineReturns(p, [NoResult EXCEPT !.scene = r.result, !.raised = r.raised], r)

SceneRequirements ==
    /\ op' = "get_scene_requirements"
    /\ \E p \in Pages :
          RequirementsResult(p, get_scene_requirements(scene_cache, TransitionManagerState, p))

ReferenceResult(p, r) ==
    EngineReturns(p, [NoResult EXCEPT !.page = r.page, !.raised = r.raised,
                                      !.swallowed = r.swallowed], r)

ReferencePage ==
    /\ op' = "find_reference_page"
    /\ \E p \in Pages :
          ReferenceResult(p, find_reference_page(scene_cache, TransitionManagerState, p,
                                                 1..(p - 1)))

NextTransition ==
    \/ AnalyzeTransition
    \/ GetReferenceHandling
    \/ GetBaseSceneInfo
    \/ SceneRequirements
    \/ ReferencePage

SpecTransition == InitTransition /\ [][NextTransition]_vars

(***************************************************************************)
(* Specification SpecClassify: the two functions of the TransitionManager  *)
(* that read the configuration only, applied to the loaded configuration.  *)
(***************************************************************************)
NextClassify ==
    \/ ClassifyEnvironment
    \/ GetTransitionRules

SpecClassify == InitTransition /\ [][NextClassify]_vars

(***************************************************************************)
(* Specification SpecComposition: _calculate_composition_ratio applied to  *)
(* two lists of characteristics.  The lists are runs of the names          *)
(* "1" .. "MaxChars", so that they overlap in any number of names.         *)
(***************************************************************************)
CharacteristicLists ==
    {<<>>} \cup {[i \in 1..(b - a + 1) |-> ToString(a + i - 1)] :
                    a \in 1..MaxChars, b \in 1..MaxChars}

InitComposition ==
    /\ cfg = CHOOSE c \in TransitionConfigs : TRUE
    /\ arg_page = 1
    /\ arg_files = {}
    /\ scene_cache = <<>>
    /\ environment_cache = <<>>
    /\ lighting_defaults = LoadedLighting(cfg)
    /\ op = "init"
    /\ \E cur \in CharacteristicLists, prev \in CharacteristicLists :
          ret = [NoResult EXCEPT !.current = cur, !.previous = prev]
    /\ Idle
    /\ story_pages = 0

CalculateCompositionRatio ==
    /\ op' = "calculate_composition_ratio"
    /\ PureCall([ret EXCEPT !.composition =
                    calculate_composition_ratio(ret.current, ret.previous)])

NextComposition == CalculateCompositionRatio

SpecComposition == InitComposition /\ [][NextComposition]_vars

(***************************************************************************)
(* APIClient._extract_story_text_from_response.  A response is a sequence  *)
(* of tokens: the two exact markers, a label, a stop marker, a plain word, *)
(* a double quote, the newline character, and the two characters           *)
(* backslash n that the code splits and joins on ('\\n' in the source).    *)
(* No token of the alphabet is a page header or a heading prefix.          *)
(***************************************************************************)
ResponseTokens ==
    {"TEXT START", "TEXT END", "Text:", "Illustration:", "cat", "\"", "\n", "\\n"}

\* str.lower() on a token.
lower(t) ==
    IF t = "Text:" THEN "text:"
    ELSE IF t = "Illustration:" THEN "illustration:"
    ELSE IF t = "TEXT START" THEN "text start"
    ELSE IF t = "TEXT END" THEN "text end"
    ELSE t

\* Characters that str.strip() removes.
IsSpace(t) == t = "\n"

\* str.strip().
Strip(s) ==
    IF \A i \in 1..Len(s) : IsSpace(s[i]) THEN <<>>
    ELSE SubSeq(s, Min({i \in 1..Len(s) : ~IsSpace(s[i])}),
                   Max({i \in 1..Len(s) : ~IsSpace(s[i])}))

\* str.find(): the first position of a token, 0 when absent.
Find(s, t) ==
    IF \E i \in 1..Len(s) : s[i] = t THEN Min({i \in 1..Len(s) : s[i] = t}) ELSE 0

\* Lines 233-235: the text between the first occurrences of the markers.
start_idx(full_text) == Find(full_text, "TEXT START") + 1
end_idx(full_text) == Find(full_text, "TEXT END")
\* The slice of lines 233-236 without the strip().
extracted_text_Untrimmed(full_text) ==
    SubSeq(full_text, start_idx(full_text), end_idx(full_text) - 1)
extracted_text(full_text) ==
    Strip(SubSeq(full_text, start_idx(full_text), end_idx(full_text) - 1))

\* Lines 232-240: heuristic 1 returns.
MarkersApply(full_text) ==
    /\ Find(full_text, "TEXT START") # 0
    /\ Find(full_text, "TEXT END") # 0
    /\ start_idx(full_text) < end_idx(full_text)
    /\ extracted_text(full_text) # <<>>

\* Line 242: full_text.split('\\n'), a split on backslash n.
RECURSIVE split(_, _, _, _)
split(s, i, line, lines) ==
    IF i > Len(s) THEN Append(lines, line)
    ELSE IF s[i] = "\\n" THEN split(s, i + 1, <<>>, Append(lines, line))
    ELSE split(s, i + 1, Append(line, s[i]), lines)

\* "\\n".join(lines).strip()
RECURSIVE join(_, _, _)
join(lines, i, acc) ==
    IF i > Len(lines) THEN Strip(acc)
    ELSE IF i = 1 THEN join(lines, 2, lines[1])
    ELSE join(lines, i + 1, acc \o <<"\\n">> \o lines[i])

\* Lines 251, 264: the marker tests on the stripped, lowered line.
HasTextMarker(line) == \E i \in 1..Len(line) : lower(line[i]) = "text:"
HasStopMarker(line) == \E i \in 1..Len(line) : lower(line[i]) = "illustration:"

\* The last k characters of the label.
LabelTail == <<":", "t:", "xt:", "ext:", "Text:">>

\* Lines 255-260: marker_pos is found in the stripped line and applied to
\* the unstripped one, so the slice starts as many characters before the
\* end of the label as the line has leading whitespace.
LeadingSpace(line) == Min({i \in 1..Len(line) : ~IsSpace(line[i])}) - 1
AfterMarker(line) ==
    SubSeq(line, Min({i \in 1..Len(line) : lower(line[i]) = "text:"}) + 1, Len(line))
potential_text(line) ==
    Strip((IF LeadingSpace(line) = 0 THEN <<>> ELSE <<LabelTail[LeadingSpace(line)]>>)
          \o AfterMarker(line))

\* Lines 247-269: the loop of heuristic 2.
RECURSIVE story_lines(_, _, _, _)
story_lines(lines, i, in_story_section, acc) ==
    IF i > Len(lines) THEN acc
    ELSE IF Strip(lines[i]) = <<>> THEN story_lines(lines, i + 1, in_story_section, acc)
    ELSE IF HasTextMarker(lines[i])
         THEN story_lines(lines, i + 1, TRUE,
                          IF potential_text(lines[i]) # <<>>
                          THEN Append(acc, potential_text(lines[i])) ELSE acc)
    ELSE IF HasStopMarker(lines[i]) /\ in_story_section THEN acc
    ELSE IF in_story_section
         THEN story_lines(lines, i + 1, in_story_section, Append(acc, Strip(lines[i])))
    ELSE story_lines(lines, i + 1, in_story_section, acc)

\* Lines 276, 278: ':' in a line, the double quotes of a line.
HasColon(line) == \E i \in 1..Len(line) : line[i] \in {"Text:", "Illustration:", ":", "t:", "xt:", "ext:"}
QuoteCount(line) == Cardinality({i \in 1..Len(line) : line[i] = "\""})

\* str.strip('"')
StripQuotes(s) ==
    IF \A i \in 1..Len(s) : s[i] = "\"" THEN <<>>
    ELSE SubSeq(s, Min({i \in 1..Len(s) : s[i] # "\""}),
                   Max({i \in 1..Len(s) : s[i] # "\""}))

\* Lines 276-279: the quoted lines without a colon.  Two quotes make the
\* stripped line longer than two characters exactly when it has a third token.
filtered_quoted_lines(lines) ==
    SelectSeq([i \in 1..Len(lines) |->
                  IF QuoteCount(Strip(lines[i])) >= 2 /\ Len(Strip(lines[i])) > 2
                  THEN [keep |-> ~HasColon(lines[i]), line |-> StripQuotes(Strip(lines[i]))]
                  ELSE [keep |-> FALSE, line |-> <<>>]],
              LAMBDA q : q.keep)

\* Lines 286-291: no token is a page header, so re.search finds none.
IsPageHeader(t, page_number) == lower(t) = "page " \o ToString(page_number)
page_marker_found_idx(lines, page_number) ==
    IF \E i \in 1..Len(lines) : \E j \in 1..Len(lines[i]) :
           /\ IsPageHeader(lines[i][j], page_number)
           /\ (j = 1 \/ IsSpace(lines[i][j - 1]))
           /\ (j = Len(lines[i]) \/ IsSpace(lines[i][j + 1]))
    THEN Min({i \in 1..Len(lines) : \E j \in 1..Len(lines[i]) :
           /\ IsPageHeader(lines[i][j], page_number)
           /\ (j = 1 \/ IsSpace(lines[i][j - 1]))
           /\ (j = Len(lines[i]) \/ IsSpace(lines[i][j + 1]))})
    ELSE 0

\* len(l.split()): the runs of tokens between whitespace.
WordCount(line) ==
    Cardinality({i \in 1..Len(line) :
                    ~IsSpace(line[i]) /\ (i = 1 \/ IsSpace(line[i - 1]))})

\* Lines 295-299: up to five lines after the header.
candidate_lines(lines, idx) ==
    SelectSeq(SubSeq(lines, idx + 1, Min({idx + 5, Len(lines)})),
              LAMBDA l : Strip(l) # <<>> /\ ~HasColon(l) /\ WordCount(l) > 2)

\* Line 306: the non-empty lines without a colon.
fallback_lines(lines) == SelectSeq(lines, LAMBDA l : Strip(l) # <<>> /\ ~HasColon(l))

StripEach(lines) == [i \in 1..Len(lines) |-> Strip(lines[i])]
FirstThree(lines) == SubSeq(lines, 1, Min({3, Len(lines)}))
LinesOf(quoted) == [i \in 1..Len(quoted) |-> quoted[i].line]

\* Lines 304-313.
Fallback(full_text, lines) ==
    IF fallback_lines(lines) # <<>>
    THEN join(FirstThree(StripEach(fallback_lines(lines))), 1, <<>>)
    ELSE Strip(full_text)

\* Lines 283-302.
PageHeaderOr(full_text, lines, idx) ==
    IF idx # 0 /\ candidate_lines(lines, idx) # <<>>
    THEN join(FirstThree(StripEach(candidate_lines(lines, idx))), 1, <<>>)
    ELSE Fallback(full_text, lines)

\* Lines 275-280.
QuotedOr(full_text, lines, page_number, quoted) ==
    IF quoted # <<>> THEN join(LinesOf(quoted), 1, <<>>)
    ELSE PageHeaderOr(full_text, lines, page_marker_found_idx(lines, page_number))

\* Lines 271-273.
StoryLinesOr(full_text, lines, page_number, collected) ==
    IF collected # <<>> THEN join(collected, 1, <<>>)
    ELSE QuotedOr(full_text, lines, page_number, filtered_quoted_lines(lines))

extract_story_text_from_response(full_text, page_number) ==
    IF MarkersApply(full_text) THEN extracted_text(full_text)
    ELSE StoryLinesOr(full_text, split(full_text, 1, <<>>, <<>>), page_number,
                      story_lines(split(full_text, 1, <<>>, <<>>), 1, FALSE, <<>>))

(***************************************************************************)
(* SpecExtract: the extraction applied once to a response of at most       *)
(* MaxResponse tokens.                                                     *)
(***************************************************************************)
RECURSIVE Responses(_)
Responses(n) ==
    IF n = 0 THEN {<<>>}
    ELSE Responses(n - 1) \cup
         {Append(s, t) : s \in {r \in Responses(n - 1) : Len(r) = n - 1},
                         t \in ResponseTokens}

InitExtract ==
    /\ cfg = CHOOSE c \in TransitionConfigs : TRUE
    /\ arg_page = 1
    /\ arg_files = {}
    /\ scene_cache = <<>>
    /\ environment_cache = <<>>
    /\ lighting_defaults = LoadedLighting(cfg)
    /\ op = "init"
    /\ \E full_text \in Responses(MaxResponse) :
          ret = [NoResult EXCEPT !.response = full_text]
    /\ Idle
    /\ story_pages = 0

ExtractStoryText ==
    /\ op' = "_extract_story_text_from_response"
    /\ PureCall([ret EXCEPT !.story =
                    extract_story_text_from_response(ret.response, arg_page)])

NextExtract == ExtractStoryText

SpecExtract == InitExtract /\ [][NextExtract]_vars

(***************************************************************************)
(* handle_rate_limit_retry.  ret.retry holds its locals and what the loop  *)
(* has done: max_retries, retry_count, wait_time, the attempts made, the   *)
(* pages the checkpoint holds as completed, and the message and the cause  *)
(* of the exception that ended the last attempt.  pc is "while" at the     *)
(* loop test, "generating" inside generate_book, "sleep" in time.sleep     *)
(* and "done" after the loop.  A message is the sequence of the words of   *)
(* str(e).lower().                                                         *)
(***************************************************************************)
\* The errors the API may report for a request, and the message of the
\* exception make_request raises for each (_handle_error_response).
ApiErrors == {"rate limit", "quota", "server"}
handle_error_response(k) ==
    <<"api", "request", "failed", "with", "status", "code">> \o
    (IF k = "rate limit" THEN <<"rate", "limit", "exceeded">>
     ELSE IF k = "quota" THEN <<"quota", "exceeded">>
     ELSE <<"internal", "error">>)

\* APIClient.generate_story_text: an exception of make_request is logged and
\* ("", False) is returned; success is all that is left of the message.
generate_story_text(message) == [text |-> "", success |-> message = <<>>]

\* generate_page_text, lines 183-186: the exception raised when the call did
\* not succeed.
TextGenerationError(t) ==
    IF t.success THEN <<>> ELSE <<"api", "call", "failed", "for", "text", "generation">>

\* Errors of the operating system while the files of a page are written.
OsErrors == {<<"disk", "quota", "exceeded">>, <<"permission", "denied">>}

\* What may happen during one generate_page: the message of the exception
\* that leaves generate_book (<<>> when the page is completed) and its cause.
\* An error the API reports for the image request makes generate_image
\* return None, and the page is completed without image.
PageEvents ==
    {[message |-> <<>>, cause |-> ""]}
    \cup {[message |-> TextGenerationError(generate_story_text(handle_error_response(k))),
           cause |-> k] : k \in ApiErrors}
    \cup {[message |-> <<>>, cause |-> k] : k \in ApiErrors}
    \cup {[message |-> m, cause |-> "os"] : m \in OsErrors}

\* "rate limit" in error_str or "quota" in error_str
IsRateLimitError(error_str) ==
    \/ \E i \in 1..(Len(error_str) - 1) : error_str[i] = "rate" /\ error_str[i + 1] = "limit"
    \/ \E i \in 1..Len(error_str) : error_str[i] = "quota"

InitRetry ==
    /\ cfg = CHOOSE c \in TransitionConfigs : TRUE
    /\ arg_page = 1
    /\ arg_files = {}
    /\ scene_cache = <<>>
    /\ environment_cache = <<>>
    /\ lighting_defaults = LoadedLighting(cfg)
    /\ op = "init"
    /\ \E m \in 0..MaxRetries : ret = [NoResult EXCEPT !.retry = [NoRetry EXCEPT !.max_retries = m]]
    /\ bg = EmptyState
    /\ cm = EmptyState
    /\ shared = {}
    /\ disk = NoCheckpoint
    /\ pc = "while"
    /\ page_num = 0
    /\ regen = NoRegeneration
    /\ image_ok = {}
    /\ run = NoRun
    /\ story_pages = 0

\* The locals of the loop become r and the loop goes to position at.
RetryGoes(at, r) ==
    /\ pc' = at
    /\ ret' = [ret EXCEPT !.retry = r]
    /\ UNCHANGED <<cfg, arg_page, arg_files, scene_cache, environment_cache, lighting_defaults,
                   bg, cm, shared, disk, story_pages, page_num, regen, image_ok, run>>

\* while retry_count < max_retries: the managers and the BookGenerator are
\* constructed (from the checkpoint) and generate_book is called.
RetryAttempt ==
    /\ pc = "while"
    /\ ret.retry.retry_count < ret.retry.max_retries
    /\ op' = "generate_book"
    /\ RetryGoes("generating", [ret.retry EXCEPT !.attempts = @ + 1, !.message = <<>>,
                                                 !.cause = ""])

\* The loop test fails.
RetryExit ==
    /\ pc = "while"
    /\ ret.retry.retry_count >= ret.retry.max_retries
    /\ op' = "return"
    /\ RetryGoes("done", ret.retry)

\* The except clause of lines 715-730 for an exception with message e.message.
RetryExcept(e, r) ==
    IF IsRateLimitError(e.message)
    THEN RetryGoes(IF r.retry_count + 1 >= r.max_retries THEN "done" ELSE "sleep",
                   [r EXCEPT !.retry_count = @ + 1, !.message = e.message, !.cause = e.cause])
    ELSE RetryGoes("done", [r EXCEPT !.message = e.message, !.cause = e.cause])

\* generate_book generates the next page that is not completed.
RetryPage ==
    /\ pc = "generating"
    /\ ret.retry.completed < PageCount
    /\ op' = "generate_page"
    /\ \E e \in PageEvents :
          IF e.message = <<>>
          THEN RetryGoes("generating", [ret.retry EXCEPT !.completed = @ + 1])
          ELSE RetryExcept(e, ret.retry)

\* generate_book returns: break.
RetrySuccess ==
    /\ pc = "generating"
    /\ ret.retry.completed = PageCount
    /\ op' = "break"
    /\ RetryGoes("done", ret.retry)

\* time.sleep(wait_time); wait_time *= 2
RetrySleep ==
    /\ pc = "sleep"
    /\ op' = "sleep"
    /\ RetryGoes("while", [ret.retry EXCEPT !.wait_time = 2 * @])

NextRetry ==
    \/ RetryAttempt
    \/ RetryExit
    \/ RetryPage
    \/ RetrySuccess
    \/ RetrySleep

SpecRetry == InitRetry /\ [][NextRetry]_vars

Init ==
    /\ Idle
    /\ story_pages \in 0..MaxStoryPages
    /\ cfg = CHOOSE c \in Configs : TRUE
    /\ arg_page = 1
    /\ arg_files = {}
    /\ scene_cache = <<>>
    /\ environment_cache = <<>>
    /\ lighting_defaults = LoadedLighting(cfg)
    /\ op = "init"
    /\ ret = NoResult

SetHeap(st) ==
    /\ bg' = st.bg
    /\ cm' = st.cm
    /\ shared' = st.shared
    /\ disk' = st.disk

\* A process starts: st is what its constructors left.
ProcessStarts(kind, resumed, st) ==
    /\ SetHeap(st)
    /\ run' = [count |-> run.count + 1, kind |-> kind, loaded |-> disk.exists,
               resumed |-> resumed, attempted |-> FALSE, start |-> StartOf(disk.data)]
    /\ pc' = kind
    /\ UNCHANGED <<image_ok, story_pages, scene_vars>>

\* python generate_book.py
StartBook ==
    /\ pc = "off"
    /\ run.count < MaxRuns
    /\ page_num' = 1
    /\ regen' = NoRegeneration
    /\ ProcessStarts("book", disk.exists /\ ~disk.is_complete /\ run.kind = "book",
                     Construct(disk))

\* generate_book: a completed page is skipped.
BookSkip ==
    /\ pc = "book"
    /\ page_num <= PageCount
    /\ AlreadyCompleted(Heap, page_num)
    /\ page_num' = page_num + 1
    /\ UNCHANGED <<bg, cm, shared, disk, pc, regen, image_ok, run, story_pages, scene_vars>>

\* generate_page(p) returned or raised r; st is the state it leaves once the
\* caller has handled an exception.
PageDone(p, r, st) ==
    /\ SetHeap(st)
    /\ image_ok' = IF r.image # 0 THEN image_ok \cup {p} ELSE image_ok
    /\ run' = [run EXCEPT !.attempted = @ \/ r.attempted]
    /\ UNCHANGED <<story_pages, scene_vars>>

\* Mutant: the loop of generate_book goes on after an exception.
BookPageDone_GoesOn(r) ==
    /\ pc' = "book"
    /\ page_num' = page_num + 1
    /\ UNCHANGED regen
    /\ PageDone(page_num, r, r.st)

\* An exception of generate_page leaves generate_book and ends the run.
BookPageDone(r) ==
    /\ pc' = IF r.raised THEN "off" ELSE "book"
    /\ page_num' = IF r.raised THEN page_num ELSE page_num + 1
    /\ UNCHANGED regen
    /\ PageDone(page_num, r, r.st)

\* generate_book: generate_page for the next page.
BookPage ==
    /\ pc = "book"
    /\ page_num <= PageCount
    /\ ~AlreadyCompleted(Heap, page_num)
    /\ \E o \in Outcomes : BookPageDone(generate_page(Heap, page_num, o))

\* generate_book after the loop: cover, final book, mark_as_complete.
BookFinish ==
    /\ pc = "book"
    /\ page_num > PageCount
    /\ SetHeap(mark_as_complete(Heap))
    /\ pc' = "off"
    /\ UNCHANGED <<page_num, regen, image_ok, run, story_pages, scene_vars>>

\* The process is stopped between two pages (for instance while it waits
\* before the next page).
Interrupt ==
    /\ pc \in {"book", "regen"}
    /\ pc' = "off"
    /\ UNCHANGED <<bg, cm, shared, disk, page_num, regen, image_ok, run, story_pages, scene_vars>>

\* regenerate_pages(S) begins on the BookGenerator st: the backups are taken
\* and the pages leave completed_pages.
RegenerationStarts(S, st) ==
    /\ regen' = [todo |-> SortedSeq(S), pages |-> S, backup |-> BackupOf(st.bg)]
    /\ ProcessStarts("regen", FALSE,
                     BgMutate(st, "completed_pages", st.bg.completed_pages \ S))

\* python generate_book.py --regenerate S
RegenStart ==
    /\ pc = "off"
    /\ run.count < MaxRuns
    /\ page_num' = 0
    /\ \E S \in SUBSET BookPages \ {{}} : RegenerationStarts(S, Construct(disk))

\* On an exception of generate_page the backups are restored and the run ends.
RegenPageDone(p, r) ==
    /\ pc' = IF r.raised THEN "off" ELSE "regen"
    /\ regen' = IF r.raised THEN regen ELSE [regen EXCEPT !.todo = Tail(@)]
    /\ UNCHANGED page_num
    /\ PageDone(p, r, IF r.raised THEN RestoreBackup(r.st, regen.backup) ELSE r.st)

\* regenerate_pages: generate_page for the next named page.
RegenPage ==
    /\ pc = "regen"
    /\ regen.todo # <<>>
    /\ \E o \in Outcomes :
         RegenPageDone(Head(regen.todo), generate_page(Heap, Head(regen.todo), o))

\* regenerate_pages after the loop: checkpoint_manager.save().
RegenFinish ==
    /\ pc = "regen"
    /\ regen.todo = <<>>
    /\ SetHeap(save_checkpoint(Heap))
    /\ pc' = "off"
    /\ UNCHANGED <<page_num, regen, image_ok, run, story_pages, scene_vars>>

Next ==
    \/ StartBook
    \/ BookSkip
    \/ BookPage
    \/ BookFinish
    \/ Interrupt
    \/ RegenStart
    \/ RegenPage
    \/ RegenFinish

Spec == Init /\ [][Next]_vars


(***************************************************************************)
(* Properties of the SceneManager (checked under SpecScene)                *)
(***************************************************************************)
\* The configured character of a character type.
ConfiguredCharacter(type) == cfg.characters[CHOOSE i \in 1..Len(cfg.characters) : cfg.characters[i].type = type]

\* The introduction page a character counts as introduced on: the configured
\* one, page 1 when none is configured.
IntroducedOn(ch) == IF ch.intro = 0 THEN 1 ELSE ch.intro

\* The pages before arg_page among the supplied images.
PriorImages == {q \in arg_files : q < arg_page}

\* The characters required on arg_page, as get_required_characters lists them.
RequiredNow == {i \in 1..Len(cfg.characters) :
                   \E k \in 1..Len(get_required_characters(arg_page)) :
                       get_required_characters(arg_page)[k].type = cfg.characters[i].type}

\* The configured introduction pages of the required characters that are not
\* the current page and have a saved image among the prior pages.
RequiredIntroPagesWithImages ==
    {cfg.characters[i].intro : i \in RequiredNow} \cap {q \in PriorImages : q # arg_page}

\* C1: the characters get_required_characters(p, _) returns never include a
\* character whose introduction page (1 when none is configured) is after p.
C1_NoCharacterBeforeIntroduction ==
    op = "get_required_characters" =>
        \A k \in 1..Len(ret.chars) :
            IntroducedOn(ConfiguredCharacter(ret.chars[k].type)) <= arg_page

\* C1 witness: a character is returned while another one, introduced on a
\* later page and otherwise eligible, is left out.
C1_Witness ==
    /\ op = "get_required_characters"
    /\ Len(ret.chars) = 1
    /\ \E i \in 1..Len(cfg.characters) :
          /\ cfg.characters[i].intro > arg_page
          /\ get_story_phase(arg_page) \in cfg.characters[i].actions

\* C2: find_reference_page returns None (0) or a page before current_page that
\* is a key of the supplied mapping.
C2_ReferenceIsPriorSavedPage ==
    op = "find_reference_page" =>
        \/ ret.page = 0
        \/ ret.page < arg_page /\ ret.page \in arg_files

\* C2 witness: a page is returned although the mapping also holds the current
\* page and a later one.
C2_Witness ==
    /\ op = "find_reference_page"
    /\ ret.page # 0
    /\ arg_page \in arg_files
    /\ \E q \in arg_files : q > arg_page

\* C3 (as claimed): whenever a character required on current_page has an
\* introduction page that is not current_page and has a saved image among the
\* prior pages, find_reference_page returns the earliest such page.
C3_EarliestIntroductionPage ==
    (op = "find_reference_page" /\ RequiredIntroPagesWithImages # {}) =>
        ret.page = Min(RequiredIntroPagesWithImages)

\* C4: with no image before current_page the result is None; with prior
\* images none of which is the introduction page of a required character,
\* the result is the highest-numbered prior page with an image.
C4_NoneOrMostRecent ==
    op = "find_reference_page" =>
        /\ PriorImages = {} => ret.page = 0
        /\ (PriorImages # {} /\ RequiredIntroPagesWithImages = {}) => ret.page = Max(PriorImages)

\* C4 witness: two prior images, a required character introduced on a page
\* without image, and the later of the two images is returned.
C4_Witness ==
    /\ op = "find_reference_page"
    /\ Cardinality(PriorImages) >= 2
    /\ RequiredNow # {}
    /\ RequiredIntroPagesWithImages = {}
    /\ ret.page = Max(PriorImages)

\* C5: an error raised while the characters of the page are looked up never
\* leaves find_reference_page; the most recent prior page with an image is
\* returned instead.
C5_LookupErrorFallsBack ==
    op = "find_reference_page" =>
        /\ ~ret.raised
        /\ ret.swallowed => (PriorImages # {} /\ ret.page = Max(PriorImages))

\* C5 witness: get_scene_requirements raised inside find_reference_page (the
\* similarity of two empty element sets divides by zero) and the most recent
\* of two prior pages came back.
C5_Witness ==
    /\ op = "find_reference_page"
    /\ ret.swallowed
    /\ Cardinality(PriorImages) >= 2
    /\ ret.page = Max(PriorImages)

(***************************************************************************)
(* Properties of page generation and the checkpoint (checked under Spec)   *)
(***************************************************************************)
HasEntry(d, p) == p \in DOMAIN d

\* C6: original_image_files, in the BookGenerator and in the
\* CheckpointManager, has an entry for a page only if some
\* generate_page_image for that page returned an image path.
C6_ImageEntryOnlyAfterSuccess ==
    \A p \in BookPages :
        (HasEntry(bg.original_image_files, p) \/ HasEntry(cm.original_image_files, p))
            => p \in image_ok

\* C7: the conversation history of the BookGenerator, of the
\* CheckpointManager and of the checkpoint file never holds more than 10
\* entries, after any number of page generations.
C7_ConversationHistoryBounded ==
    /\ Len(bg.conversation_history) <= HistoryCap
    /\ Len(cm.conversation_history) <= HistoryCap
    /\ Len(disk.data.conversation_history) <= HistoryCap

\* A resumed process shared one history list until the CheckpointManager cut
\* its list to the last 10 entries; both lists are full.
C7_Witness ==
    /\ pc # "off"
    /\ run.loaded
    /\ "conversation_history" \notin shared
    /\ Len(bg.conversation_history) = HistoryCap
    /\ Len(cm.conversation_history) = HistoryCap

\* The step replaces the text stored for page p: in the CheckpointManager, or
\* in the BookGenerator of the running process.
DescriptionOverwritten(p) ==
    \/ /\ HasEntry(cm.previous_descriptions, p)
       /\ cm'.previous_descriptions[p] # cm.previous_descriptions[p]
    \/ /\ pc # "off"
       /\ HasEntry(bg.previous_descriptions, p)
       /\ \/ ~HasEntry(bg'.previous_descriptions, p)
          \/ bg'.previous_descriptions[p] # bg.previous_descriptions[p]

\* C8 as stated: once previous_descriptions[p] is written, it changes only
\* during a regenerate_pages call that names p.
C8_OverwrittenOnlyByRegeneration ==
    [][\A p \in BookPages :
          DescriptionOverwritten(p) => (pc = "regen" /\ p \in regen.pages)]_vars

\* C8 amended: once previous_descriptions[p] is written, it changes only
\* during a regenerate_pages call that names p, or when generate_book
\* generates p because p is not in completed_pages; generate_book never
\* overwrites the entry of a completed page.
C8_OverwrittenOnlyWhenGenerated ==
    [][\A p \in BookPages :
          DescriptionOverwritten(p) =>
             \/ pc = "regen" /\ p \in regen.pages
             \/ pc = "book" /\ p = page_num /\ p \notin bg.completed_pages
                            /\ p \notin cm.completed_pages]_vars

\* generate_book has replaced the text the checkpoint held for a page when
\* the process started.
C8_Witness ==
    /\ pc = "book"
    /\ run.loaded
    /\ \E p \in BookPages :
          /\ HasEntry(run.start.previous_descriptions, p)
          /\ p \notin run.start.completed_pages
          /\ cm.previous_descriptions[p] # run.start.previous_descriptions[p]
          /\ bg.previous_descriptions[p] # run.start.previous_descriptions[p]

\* C9: every page in completed_pages has a text in previous_descriptions and
\* a saved image in original_image_files.
C9_CompletedPagesFullyGenerated ==
    \A p \in bg.completed_pages \cup cm.completed_pages :
        /\ HasEntry(bg.previous_descriptions, p)
        /\ HasEntry(bg.original_image_files, p)
        /\ HasEntry(cm.previous_descriptions, p)
        /\ HasEntry(cm.original_image_files, p)

\* The entry a dict holds for page p, as a sequence: <<>> for none.
EntryOf(d, p) == IF HasEntry(d, p) THEN <<d[p]>> ELSE <<>>

\* A step of a resumed generate_book leaves the pages that were completed in
\* the checkpoint completed, with their text and image entries, and does not
\* make one of them the last attempted page.
CompletedPagesUntouched ==
    (pc = "book" /\ run.resumed) =>
        \A p \in run.start.completed_pages :
            /\ p \in bg'.completed_pages /\ p \in cm'.completed_pages
            /\ p \in disk'.data.completed_pages
            /\ EntryOf(bg'.previous_descriptions, p) = EntryOf(run.start.previous_descriptions, p)
            /\ EntryOf(cm'.previous_descriptions, p) = EntryOf(run.start.previous_descriptions, p)
            /\ EntryOf(bg'.original_image_files, p) = EntryOf(run.start.original_image_files, p)
            /\ EntryOf(cm'.original_image_files, p) = EntryOf(run.start.original_image_files, p)
            /\ (cm'.last_attempted_page # cm.last_attempted_page => cm'.last_attempted_page # p)

\* The step is the first generate_page of a resumed generate_book.
FirstAttemptOfResumedRun == pc = "book" /\ run.resumed /\ ~run.attempted /\ run'.attempted

\* C10 as stated: a resumed generate_book leaves the checkpointed completed
\* pages untouched, and the first page it attempts is the checkpointed
\* last_attempted_page (when the interrupted run had attempted a page).
C10_ResumesAtLastAttemptedPage ==
    [][/\ CompletedPagesUntouched
       /\ (FirstAttemptOfResumedRun /\ run.start.last_attempted_page # 0)
             => cm'.last_attempted_page = run.start.last_attempted_page]_vars

\* C10 amended: a resumed generate_book leaves the checkpointed completed
\* pages untouched, and the first page it attempts is the lowest-numbered
\* page that is not in the checkpointed completed_pages.
C10_ResumesAtFirstIncompletePage ==
    [][/\ CompletedPagesUntouched
       /\ FirstAttemptOfResumedRun =>
             /\ BookPages \ run.start.completed_pages # {}
             /\ cm'.last_attempted_page = Min(BookPages \ run.start.completed_pages)
             /\ bg'.last_attempted_page = Min(BookPages \ run.start.completed_pages)]_vars

\* A resumed generate_book whose checkpoint named a completed page as the
\* last attempted one has attempted the page after it.
C10_Witness ==
    /\ run.kind = "book"
    /\ run.resumed
    /\ run.attempted
    /\ run.start.last_attempted_page \in run.start.completed_pages
    /\ cm.last_attempted_page = run.start.last_attempted_page + 1
    /\ run.start.completed_pages \subseteq cm.completed_pages

(***************************************************************************)
(* Properties of regenerate_pages and generate_page_text (checked under    *)
(* Spec)                                                                   *)
(***************************************************************************)
\* What a BookGenerator or CheckpointManager state st holds for page q is
\* what the checkpoint held for it when the process started.
SameAsAtStart(st, q) ==
    /\ (q \in st.completed_pages) = (q \in run.start.completed_pages)
    /\ EntryOf(st.previous_descriptions, q) = EntryOf(run.start.previous_descriptions, q)
    /\ EntryOf(st.original_image_files, q) = EntryOf(run.start.original_image_files, q)

\* C11: during and after regenerate_pages(S), on the success path and on the
\* failure path, every page q not in S has the membership in completed_pages
\* and the entries in previous_descriptions and original_image_files that it
\* had before the call, in the BookGenerator and in the CheckpointManager.
C11_RegenerationLeavesOtherPages ==
    run.kind = "regen" =>
        \A q \in BookPages \ regen.pages : SameAsAtStart(bg, q) /\ SameAsAtStart(cm, q)

\* regenerate_pages failed on a page of S after that page's new text was
\* stored, the backups were restored, and a completed page outside S exists.
C11_Witness ==
    /\ run.kind = "regen"
    /\ pc = "off"
    /\ regen.todo # <<>>
    /\ bg.previous_descriptions = regen.backup.previous_descriptions
    /\ bg.completed_pages = regen.backup.completed_pages
    /\ cm.previous_descriptions # bg.previous_descriptions
    /\ \E q \in BookPages \ regen.pages :
          /\ q \in bg.completed_pages
          /\ HasEntry(bg.previous_descriptions, q)
          /\ HasEntry(bg.original_image_files, q)

\* C12: a text that is too short is never accepted: when the backup
\* generation fails, generate_page_text raises, so no page has the unusable
\* text as its description and no such page is in completed_pages.
C12_UnusableTextNotAccepted ==
    \A p \in BookPages :
        /\ HasEntry(bg.previous_descriptions, p) => bg.previous_descriptions[p] # ShortText
        /\ HasEntry(cm.previous_descriptions, p) => cm.previous_descriptions[p] # ShortText
        /\ (p \in cm.completed_pages /\ HasEntry(cm.previous_descriptions, p))
              => cm.previous_descriptions[p] # ShortText

(***************************************************************************)
(* Properties of the SceneManager, continued (checked under SpecScene)     *)
(***************************************************************************)
\* The phases of a phase table whose inclusive range holds p, by position.
InclusiveMatches(table, p) ==
    {i \in 1..Len(table) : table[i].start_page <= p /\ p <= table[i].end_page}

\* The phase C14 describes for page p.
DescribedPhase(p) ==
    IF InclusiveMatches(cfg.phase_mapping, p) # {}
    THEN cfg.phase_mapping[Min(InclusiveMatches(cfg.phase_mapping, p))].phase
    ELSE IF InclusiveMatches(cfg.fallback_phases, p) # {}
    THEN cfg.fallback_phases[Min(InclusiveMatches(cfg.fallback_phases, p))].phase
    ELSE cfg.default_phase

\* C14: get_story_phase(p) is the first phase of phase_mapping whose inclusive
\* range holds p, else the first phase of the fallback table whose inclusive
\* range holds p, else the default phase.
C14_StoryPhaseByInclusiveRange ==
    op = "get_story_phase" => ret.phase = DescribedPhase(arg_page)

\* The positions of the configured characters C15 describes as included on
\* page p.
DescribedIncluded(p) ==
    {i \in 1..Len(cfg.characters) :
        /\ p >= IntroducedOn(cfg.characters[i])
        /\ \/ get_story_phase(p) \in cfg.characters[i].actions
           \/ p \in cfg.characters[i].emotional_states}

\* The k-th smallest element of a set of numbers.
RECURSIVE KthSmallest(_, _)
KthSmallest(S, k) == IF k = 1 THEN Min(S) ELSE KthSmallest(S \ {Min(S)}, k - 1)

\* C15: get_required_characters(p) lists exactly the configured characters
\* with p >= introduction page that have an action for get_story_phase(p) or
\* an emotional state for p, in configuration order, each with its phase
\* action (or None) and its page emotion (or None).
C15_RequiredCharactersAsConfigured ==
    op = "get_required_characters" =>
        /\ Len(ret.chars) = Cardinality(DescribedIncluded(arg_page))
        /\ \A k \in 1..Len(ret.chars) :
              LET ch == cfg.characters[KthSmallest(DescribedIncluded(arg_page), k)]
              IN /\ ret.chars[k].type = ch.type
                 /\ ret.chars[k].name = ch.name
                 /\ ret.chars[k].action =
                       (IF get_story_phase(arg_page) \in ch.actions
                        THEN get_story_phase(arg_page) ELSE "None")
                 /\ ret.chars[k].emotion =
                       (IF arg_page \in ch.emotional_states THEN arg_page ELSE 0)

\* Both characters are listed, one for its page emotion only and one for its
\* phase action only.
C15_Witness ==
    /\ op = "get_required_characters"
    /\ Len(ret.chars) = 2
    /\ ret.chars[1].action = "None" /\ ret.chars[1].emotion = arg_page
    /\ ret.chars[2].action # "None" /\ ret.chars[2].emotion = 0

(***************************************************************************)
(* C19: _get_environment_type gives +2 for every indicator and +1 for      *)
(* every characteristic of an archetype that is a substring of the         *)
(* lower-cased scene text, returns the archetype with the highest total,   *)
(* the first-configured one among several with the highest total, and      *)
(* "default" when no archetype scores above zero; reversing the keyword    *)
(* lists of every archetype does not change the result.                    *)
(***************************************************************************)
FoundIn(keywords, text) == {i \in 1..Len(keywords) : Found(keywords[i], text)}

DescribedScore(a, text) ==
    2 * Cardinality(FoundIn(a.indicators, text)) + Cardinality(FoundIn(a.characteristics, text))

\* The archetypes with the highest total above zero.
Highest(envs, text) ==
    {i \in 1..Len(envs) :
        /\ DescribedScore(envs[i], text) > 0
        /\ \A j \in 1..Len(envs) : DescribedScore(envs[i], text) >= DescribedScore(envs[j], text)}

DescribedType(envs, text) ==
    IF Highest(envs, text) = {} THEN "default" ELSE envs[Min(Highest(envs, text))].name

Reversed(seq) == [i \in 1..Len(seq) |-> seq[Len(seq) + 1 - i]]

KeywordsReversed(envs) ==
    [i \in 1..Len(envs) |->
        [envs[i] EXCEPT !.indicators = Reversed(@), !.characteristics = Reversed(@)]]

C19_ClassifierAsDescribed ==
    op = "get_environment_type" =>
        /\ ret.env = DescribedType(cfg.environment_types, text_to_analyze(ret.text))
        /\ ret.env = EnvironmentTypeAmong(KeywordsReversed(cfg.environment_types),
                                          text_to_analyze(ret.text))

\* Two archetypes tie for the highest score, one of them through a keyword
\* that is a proper substring of a word of the text, and the first is returned.
C19_Witness ==
    /\ op = "get_environment_type"
    /\ Cardinality(Highest(cfg.environment_types, text_to_analyze(ret.text))) = 2
    /\ ret.env = cfg.environment_types[1].name
    /\ "waves" \in ret.text
    /\ "Tree" \in ret.text
    /\ Len(cfg.environment_types[1].characteristics) = 2

(***************************************************************************)
(* C20: _get_transition_rules(from_env, to_env) returns the rule           *)
(* configured for from_env to to_env; else the rule configured for to_env  *)
(* to from_env with its introduce and phase_out lists exchanged; else a    *)
(* default rule with maintain = [character_designs, art_style,             *)
(* color_harmony] and empty introduce and phase_out lists.                 *)
(***************************************************************************)
\* The list under a key, empty when the rule lacks the key.
ListOf(has, list) == IF has THEN list ELSE <<>>

DescribedRuleIs(rules, from, to) ==
    IF RuleIndex(from, to) # 0
    THEN rules = ConfiguredRule(cfg.transition_rules[RuleIndex(from, to)])
    ELSE IF RuleIndex(to, from) # 0
    THEN /\ rules.maintain = cfg.transition_rules[RuleIndex(to, from)].maintain
         /\ ListOf(rules.has_introduce, rules.introduce)
                = ListOf(cfg.transition_rules[RuleIndex(to, from)].has_phase_out,
                         cfg.transition_rules[RuleIndex(to, from)].phase_out)
         /\ ListOf(rules.has_phase_out, rules.phase_out)
                = ListOf(cfg.transition_rules[RuleIndex(to, from)].has_introduce,
                         cfg.transition_rules[RuleIndex(to, from)].introduce)
    ELSE /\ rules.maintain = <<"character_designs", "art_style", "color_harmony">>
         /\ rules.introduce = <<>>
         /\ rules.phase_out = <<>>

C20_TransitionRulesAsDescribed ==
    op = "get_transition_rules" =>
        /\ ~ret.rules.raised
        /\ DescribedRuleIs(ret.rules, ret.from, ret.to)

(***************************************************************************)
(* C13: two consecutive calls of get_scene_requirements for the same page  *)
(* on the same engine return identical structures.                         *)
(***************************************************************************)
C13_SceneRequirementsIdempotent ==
    [][(/\ op = "get_scene_requirements" /\ ~ret.raised
        /\ op' = "get_scene_requirements" /\ arg_page' = arg_page)
           => ret'.scene = ret.scene]_vars

(***************************************************************************)
(* C16: every key of the structure get_scene_requirements returns has a    *)
(* non-empty value: the page-emotion keys, the environment                 *)
(* characteristics and the lighting defaults are left out when they are    *)
(* empty.                                                                  *)
(***************************************************************************)
C16_NoEmptyPlaceholder ==
    (op = "get_scene_requirements" /\ ~ret.raised /\ ~ret.scene.empty) =>
        /\ ret.scene.emotion => (ret.scene.lighting # "" /\ ret.scene.mood # "")
        /\ ret.scene.environment_type # "" =>
              /\ ret.scene.environment_characteristics # <<>>
              /\ ret.scene.lighting_defaults # <<>>

(***************************************************************************)
(* C17: the lighting_defaults list of every archetype of environment_types *)
(* is what it was when the configuration was loaded, whatever was called.  *)
(***************************************************************************)
C17_ConfigurationImmutable == lighting_defaults = LoadedLighting(cfg)

(***************************************************************************)
(* C18: whatever was called before, _get_base_scene_info(p) returns just   *)
(* the configured scene-progression entry of the phase of p, and           *)
(* get_reference_handling(p, r) returns what it returns with an empty      *)
(* environment_cache.                                                      *)
(***************************************************************************)
ConfiguredEntry(ph) == IF ph = "" THEN EmptyDict ELSE SceneProgressionEntry(ph)

C18_MemoizationNotReliedOn ==
    /\ op = "get_base_scene_info" => ret.scene = ConfiguredEntry(MappedPhase(arg_page))
    /\ op = "get_reference_handling" =>
          ret.handling = get_reference_handling([cache |-> <<>>, lighting |-> lighting_defaults],
                                                arg_page, ret.page).handling

(***************************************************************************)
(* C21: _calculate_composition_ratio returns the 50/50 default when either *)
(* list is empty; else, d being 1 - |current /\ previous| / |current \/     *)
(* previous| over the two sets, the 70/30 split naming the first           *)
(* characteristic of each list when d > 0.7, the 60/40 split when          *)
(* 0.3 < d <= 0.7, and the 50/50 default when d <= 0.3.                    *)
(***************************************************************************)
\* d > tenths/10 for the sets of the two lists.
DifferenceAbove(tenths, cur, prev) ==
    10 * (Cardinality(Range(cur) \cup Range(prev)) - Cardinality(Range(cur) \cap Range(prev)))
        > tenths * Cardinality(Range(cur) \cup Range(prev))

DescribedRatio(cur, prev) ==
    IF cur = <<>> \/ prev = <<>> THEN Composition("50% previous, 50% current", "", "")
    ELSE IF DifferenceAbove(7, cur, prev) THEN Composition("70%, 30%", cur[1], prev[1])
    ELSE IF DifferenceAbove(3, cur, prev) THEN Composition("60%, 40%", cur[1], prev[1])
    ELSE Composition("50% previous, 50% current", "", "")

C21_CompositionRatioByThresholds ==
    op = "calculate_composition_ratio" =>
        ret.composition = DescribedRatio(ret.current, ret.previous)

\* The first position of a token in a response.
FirstOf(s, t) == CHOOSE i \in 1..Len(s) : s[i] = t /\ \A j \in 1..(i - 1) : s[j] # t

\* The text between the first start marker and the first end marker.
BetweenMarkers(s) == SubSeq(s, FirstOf(s, "TEXT START") + 1, FirstOf(s, "TEXT END") - 1)

\* r is s without its leading and trailing whitespace.
IsTrimOf(r, s) ==
    \E a \in 1..Len(s), b \in 1..Len(s) :
        /\ r = SubSeq(s, a, b)
        /\ s[a] # "\n" /\ s[b] # "\n"
        /\ \A i \in 1..Len(s) : (i < a \/ i > b) => s[i] = "\n"

\* The response has both markers, the start before the end, and text that
\* is not blank between them.
MarkersDelimitText(s) ==
    /\ "TEXT START" \in Range(s)
    /\ "TEXT END" \in Range(s)
    /\ FirstOf(s, "TEXT START") < FirstOf(s, "TEXT END")
    /\ \E i \in 1..Len(BetweenMarkers(s)) : BetweenMarkers(s)[i] # "\n"

\* C22: whenever the response contains TEXT START and TEXT END, the (first)
\* start marker strictly before the (first) end marker and text that is not
\* blank between them, the extraction returns exactly the trimmed text
\* between the markers, whatever a later heuristic would match.
C22_ExactMarkersFirst ==
    (op = "_extract_story_text_from_response" /\ MarkersDelimitText(ret.response))
        => IsTrimOf(ret.story, BetweenMarkers(ret.response))

\* A response with a label before the markers and whitespace to trim
\* between them has been extracted.
C22_Witness ==
    /\ op = "_extract_story_text_from_response"
    /\ MarkersDelimitText(ret.response)
    /\ ret.response[1] = "Text:"
    /\ BetweenMarkers(ret.response)[1] = "\n"
    /\ ret.story = <<"cat">>

\* The position of the first label of a response, and the end of its
\* newline-separated line.
LabelAt(s) == FirstOf(s, "Text:")
LabelLineEnd(s) ==
    Min({i \in LabelAt(s)..(Len(s) + 1) : i = Len(s) + 1 \/ s[i] = "\n"})

\* The marker heuristic does not apply, a line of the newline-separated
\* response has a label, and the stop markers after the label are on later
\* lines.
LabeledWithLaterStop(s) ==
    /\ ~MarkersDelimitText(s)
    /\ "Text:" \in Range(s)
    /\ \A i \in LabelAt(s)..(LabelLineEnd(s) - 1) : s[i] # "Illustration:"

\* C23: when the marker heuristic does not apply and a line of the
\* newline-separated response contains a label, the extraction collects the
\* text after the label and the following lines and stops at the first
\* later line with a stop marker, so that no text on or after a stop-marker
\* line is part of the result.
C23_StopMarkerEndsStory ==
    (op = "_extract_story_text_from_response" /\ LabeledWithLaterStop(ret.response))
        => "Illustration:" \notin Range(ret.story)

\* C24: during generate_book the pages are generated one at a time in
\* increasing order: when page p is reached every page q < p is in
\* completed_pages, a step attempts and completes no page other than p, the
\* loop goes on to p + 1 only with p completed, and when p is not completed
\* the run ends without attempting a later page.
C24_PagesStrictlySequential ==
    [][pc = "book" =>
          /\ \A q \in 1..(page_num - 1) : q \in bg.completed_pages
          /\ bg'.completed_pages \ bg.completed_pages \subseteq {page_num}
          /\ bg'.last_attempted_page \in {bg.last_attempted_page, page_num}
          /\ (pc' = "book" => page_num' = page_num + 1 /\ page_num \in bg'.completed_pages)
          /\ (page_num <= PageCount /\ page_num \notin bg'.completed_pages => pc' = "off")]_vars

\* Page 2 is about to be generated after page 1 was generated in this run.
C24_Witness ==
    /\ pc = "book"
    /\ page_num = 2
    /\ run.attempted
    /\ bg.completed_pages = {1}
    /\ bg.last_attempted_page = 1

\* The elements configured for the scene of a page; HasSceneInfo: the page is
\* in a phase of phase_mapping that has a scene entry.
HasSceneInfo(q) == MappedPhase(q) # "" /\ cfg.scene_progression[MappedPhase(q)].present
ConfiguredElements(q) == cfg.scene_progression[MappedPhase(q)].elements

\* The candidates before arg_page whose Jaccard similarity with arg_page
\* exceeds the threshold (a pair of empty sets is taken not to exceed it).
QualifyingCandidates ==
    {q \in 1..(arg_page - 1) :
        /\ HasSceneInfo(arg_page) /\ HasSceneInfo(q)
        /\ 10 * Cardinality(ConfiguredElements(arg_page) \cap ConfiguredElements(q))
              > SimilarityTenths * Cardinality(ConfiguredElements(arg_page) \cup ConfiguredElements(q))}

\* C25 (as claimed): for every page and every configuration of elements
\* lists, empty ones included, _get_reference_page returns the nearest
\* earlier page whose Jaccard similarity with the page exceeds the threshold,
\* and None when no candidate qualifies.
C25_NearestSimilarPage ==
    op = "_get_reference_page" =>
        /\ ~ret.raised
        /\ ret.page = IF QualifyingCandidates = {} THEN 0 ELSE Max(QualifyingCandidates)

\* C26 (as claimed): for every page, those outside every phase_mapping range
\* included, whenever get_required_characters lists a character the
\* 'characters' of get_scene_requirements for the page is that list.
C26_SceneCharactersAgree ==
    (op = "get_scene_requirements" /\ get_required_characters(arg_page) # <<>>) =>
        /\ ~ret.raised
        /\ ret.scene.characters = get_required_characters(arg_page)

\* The step is a generate_page call, of generate_book or of regenerate_pages,
\* that generated its page and returned normally.
GeneratePageReturned ==
    \/ pc = "book" /\ pc' = "book" /\ page_num \notin bg.completed_pages
    \/ pc = "regen" /\ pc' = "regen" /\ regen'.todo # regen.todo

\* C27 (as claimed): after every generate_page call that returns normally, in
\* a fresh run and in a resumed one, the state last written to the checkpoint
\* file (completed_pages, last_attempted_page, previous_descriptions,
\* conversation_history, pages_with_images, original_image_files) equals the
\* values of the same fields in the BookGenerator.
C27_CheckpointMirrorsRunState ==
    [][GeneratePageReturned => (disk'.exists /\ disk'.data = bg')]_vars

\* The step is a generate_page that raised inside regenerate_pages: the run
\* ends with pages left to do, and (unlike a stopped process) the except
\* clause has assigned to the BookGenerator's fields.
RegenerationFailed ==
    /\ pc = "regen" /\ pc' = "off" /\ regen.todo # <<>>
    /\ <<bg, shared>>' # <<bg, shared>>

\* C28: when generate_page raises during regenerate_pages, the run ends with
\* the error and the BookGenerator's completed_pages, pages_with_images,
\* previous_descriptions and original_image_files are what they were when
\* regenerate_pages was called (the state loaded from the checkpoint file),
\* whatever was changed for earlier pages of the call.
C28_FailedRegenerationRollsBack ==
    [][/\ (pc = "off" /\ pc' = "regen") =>
             regen'.backup.pages_with_images =
                 (IF disk.exists THEN disk.data.pages_with_images ELSE {})
       /\ RegenerationFailed =>
             /\ bg'.completed_pages = run.start.completed_pages
             /\ bg'.previous_descriptions = run.start.previous_descriptions
             /\ bg'.original_image_files = run.start.original_image_files
             /\ bg'.pages_with_images = regen.backup.pages_with_images]_vars

\* regenerate_pages of two pages failed on the second after the first was
\* regenerated with a new text: the BookGenerator has the texts of the start
\* again, the CheckpointManager has the new one.
C28_Witness ==
    /\ run.kind = "regen"
    /\ pc = "off"
    /\ Cardinality(regen.pages) = 2
    /\ Len(regen.todo) = 1
    /\ "previous_descriptions" \notin shared
    /\ bg.previous_descriptions = run.start.previous_descriptions
    /\ bg.completed_pages = run.start.completed_pages
    /\ cm.previous_descriptions # bg.previous_descriptions

\* The step ends an attempt of the retry loop with an exception of
\* generate_book.
AttemptFailed == pc = "generating" /\ ret'.retry.message # <<>>

\* The exception came from an error the API reported as a rate limit or as
\* an exhausted quota.
RateLimited == ret'.retry.cause \in {"rate limit", "quota"}

\* C29 (as claimed): when generate_book fails because the API reported a
\* rate-limit or quota error while a page was generated,
\* handle_rate_limit_retry waits and runs the generation again from the
\* checkpoint; it makes at most max_retries attempts, stops at the first
\* successful run, and does not retry after a failure unrelated to rate
\* limits.
C29_RetriesAfterRateLimit ==
    [][/\ ret'.retry.attempts <= ret.retry.max_retries
       /\ (AttemptFailed /\ RateLimited /\ ret.retry.attempts < ret.retry.max_retries)
             => pc' = "sleep"
       /\ (AttemptFailed /\ ~RateLimited) => pc' = "done"
       /\ (pc = "generating" /\ ret.retry.completed = PageCount) => pc' = "done"
       /\ pc = "done" => pc' = "done"]_vars

\* The step is a generate_page, of generate_book or of regenerate_pages, for
\* a page whose text is not predefined: generate_page_text sends a text
\* request built from the BookGenerator's conversation history.
SendsTextRequest ==
    /\ \/ /\ pc = "book" /\ page_num <= PageCount
          /\ page_num \notin bg.completed_pages /\ page_num > story_pages
       \/ pc = "regen" /\ regen.todo # <<>> /\ Head(regen.todo) > story_pages
    /\ <<bg, cm>>' # <<bg, cm>>

\* The roles alternate from "user", every prompt is sent as "user" and every
\* response as "model".
RolesAsStored(request) ==
    /\ \A i \in 1..Len(request) :
          request[i].role = (IF request[i].text = "prompt" THEN "user" ELSE "model")
    /\ \A i \in 1..(Len(request) - 1) : request[i].role # request[i + 1].role
    /\ request[1].role = "user"
    /\ request[Len(request)].role = "user"

\* C30 (as claimed): in every text request the stored conversation history
\* followed by the new prompt is sent with strictly alternating roles, each
\* stored prompt as "user", each stored response as "model" and the new
\* prompt as "user", also after the history was cut to 10 entries and after
\* a resume from the checkpoint.
C30_RolesAlternate ==
    [][SendsTextRequest => RolesAsStored(contents(bg.conversation_history))]_vars

====
